---- MODULE Spec2Model ----
(***************************************************************************)
(* A model of HyperIT (src/HyperIT/it.py): construction and data checks,   *)
(* region-of-interest assignment, estimator selection and the pairwise     *)
(* MI / TE matrix assembly.                                                *)
(*                                                                         *)
(* Python values are tagged records [k |-> kind, v |-> payload]; numbers   *)
(* produced by the external estimators (JIDT, numpy histograms) are kept   *)
(* as terms naming the estimator call that produced them, so that two      *)
(* cells are equal in the model only when the code copies one from the     *)
(* other or calls the estimator on the same observations.                  *)
(* The JVM is taken to be started (infodynamics.jar present).              *)
(***************************************************************************)
EXTENDS Integers, Sequences, FiniteSets, TLC

\* self: the HyperIT object; last: the latest call, its arguments and outcome;
\* nops: the number of calls made on the object since its construction;
\* given: the arguments the object was constructed with
VARIABLES self, last, nops, given

vars == <<self, last, nops, given>>

----------------------------------------------------------------------------
(* Bounds of the model *)

MaxChan == 2

MaxEpo == 2

NumSamples == 3

MaxRoiOps == 1

MaxOps == 2

\* Longest sequence of ROI assignments and resets on one object
MaxRoiSeq == 3

\* Largest bin count passed to the script's mi_hist
MaxBins == 3

\* Longest sequence handed to the symbolic strategy
MaxSymbSamples == 4

\* Largest lag and largest embedding dimension of the symbolic strategy
MaxLag == 2

MaxEmbed == 3

\* Longest ordinal pattern hashed on its own
MaxPattern == 4

----------------------------------------------------------------------------
(* Python values *)

PyNone == [k |-> "none"]

PyStr(s) == [k |-> "str", v |-> s]

PyInt(n) == [k |-> "int", v |-> n]

PyList(s) == [k |-> "list", v |-> s]

PyTuple(s) == [k |-> "tuple", v |-> s]

PyArr(s) == [k |-> "ndarray", v |-> s]

IsList(x) == x.k = "list"

IsStr(x) == x.k = "str"

\* isinstance(x, int): a bool is an int
IsInt(x) == x.k \in {"int", "bool"}

\* The integer an int or a bool stands for as an index
IntOf(x) == IF x.k = "bool" THEN (IF x.v THEN 1 ELSE 0) ELSE x.v

\* iter(x) succeeds
IsIterable(x) == x.k \in {"list", "tuple", "ndarray", "str"}

PyLen(x) == Len(x.v)

\* x[i] with a 0-based Python index
PyAt(x, i) == x.v[i + 1]

\* np.arange(n)
Arange(n) == PyArr([i \in 1..n |-> PyInt(i - 1)])

\* list.index(name): position of the first occurrence, -1 standing for the
\* ValueError raised when the name is absent
ListIndex(lst, name) ==
    IF \E i \in 1..Len(lst.v) : lst.v[i] = name
    THEN (CHOOSE i \in 1..Len(lst.v) :
              /\ lst.v[i] = name
              /\ \A j \in 1..(i - 1) : lst.v[j] # name) - 1
    ELSE -1

\* Exceptions: the class and the raise site
NoExc == [type |-> "none", why |-> "none"]

Exc(type, why) == [type |-> type, why |-> why]

Raised(r) == r.exc.type # "none"

----------------------------------------------------------------------------
(* Signals *)

\* A numeric array or a plain list holding the same numbers: its shape, a
\* tag standing for its contents (two signals hold equal numbers iff their
\* shapes and tags agree) and, along the channel axis, which channel of the
\* supplied signal each position holds. Tags 1 and 2 stand for samples whose
\* interquartile range is not zero in any channel, tag 3 for one number
\* repeated throughout, tag 4 for samples that are all zero but the last of
\* every channel and epoch (a zero interquartile range with a non-zero
\* range once a channel holds five samples).
NDim(d) == Len(d.shape)

ChanAxisLen(shape) ==
    IF Len(shape) = 3 THEN shape[2] ELSE IF Len(shape) = 2 THEN shape[1] ELSE 0

Signal(isarray, shape, tag) ==
    [isarray |-> isarray, shape |-> shape, tag |-> tag,
     chans |-> Arange(ChanAxisLen(shape))]

\* np.array_equal(data1, data2)
ArrayEqual(d1, d2) == d1.shape = d2.shape /\ d1.tag = d2.tag

NoObject == [alive |-> FALSE]

----------------------------------------------------------------------------
(* HyperIT.__check_data *)

check_data_names_bad(s) ==
    \/ ~(s.channel_names.k \in {"list", "ndarray"})
    \/ IsStr(PyAt(s.channel_names, 0))

\* line 296-297: the intra-source duplication wraps the whole argument
check_data_duplicate(s) ==
    IF ~s.inter_brain /\ IsList(PyAt(s.channel_names, 0))
    THEN [s EXCEPT !.channel_names = PyList(<<s.channel_names, s.channel_names>>)]
    ELSE s

check_data_dims(s) ==
    IF s.is_epoched
    THEN [s EXCEPT !.n_epo = s.data1.shape[1], !.n_chan = s.data1.shape[2],
                   !.n_samples = s.data1.shape[3]]
    ELSE [s EXCEPT !.n_epo = 1, !.n_chan = s.data1.shape[1],
                   !.n_samples = s.data1.shape[2]]

check_data(s) ==
    IF ~(s.data1.isarray /\ s.data2.isarray)
    THEN [exc |-> Exc("ValueError", "not numpy arrays"), self |-> s]
    ELSE IF s.data1.shape # s.data2.shape
    THEN [exc |-> Exc("ValueError", "shape mismatch"), self |-> s]
    ELSE IF ~(NDim(s.data1) \in {2, 3})
    THEN [exc |-> Exc("ValueError", "dimensions"), self |-> s]
    ELSE IF s.channel_names.k = "list" /\ PyLen(s.channel_names) = 0
    THEN [exc |-> Exc("IndexError", "channel_names[0]"), self |-> s]
    ELSE IF check_data_names_bad(s)
    THEN [exc |-> Exc("ValueError", "channel names format"), self |-> s]
    ELSE LET s1 == check_data_dims(check_data_duplicate(s))
             n_channels == ChanAxisLen(s1.data1.shape)
         IN IF \E i \in 1..PyLen(s1.channel_names) :
                   PyLen(s1.channel_names.v[i]) # n_channels
            THEN [exc |-> Exc("ValueError", "channel count"), self |-> s1]
            ELSE [exc |-> NoExc,
                  self |-> [s1 EXCEPT
                      !.channel_indices1 = Arange(PyLen(PyAt(s1.channel_names, 0))),
                      !.channel_indices2 =
                          IF PyLen(s1.channel_names) > 1
                          THEN Arange(PyLen(PyAt(s1.channel_names, 1)))
                          ELSE s1.channel_indices2]]

----------------------------------------------------------------------------
(* HyperIT.__init__ *)

init_fields(data1, data2, channel_names, verbose) ==
    [alive |-> TRUE,
     verbose |-> verbose,
     channel_names |-> channel_names,
     channel_indices1 |-> PyList(<<>>),
     channel_indices2 |-> PyList(<<>>),
     all_data |-> <<data1, data2>>,
     data1 |-> data1,
     data2 |-> data2,
     roi |-> PyList(<<>>),
     roi_specified |-> FALSE,
     scale_of_organisation |-> 1,
     soi_groups |-> PyNone,
     inter_brain |-> ~ArrayEqual(data1, data2),
     is_epoched |-> FALSE,
     initialise_parameter |-> PyNone,
     n_epo |-> 0, n_chan |-> 0, n_samples |-> 0]

\* data1.ndim is read (line 59) before __check_data tests the types; _soi_groups
\* is no attribute of a new object (soi_groups is PyNone until line 145 sets it)
hyperit_init(data1, data2, channel_names, verbose) ==
    IF ~data1.isarray
    THEN [exc |-> Exc("AttributeError", "data1.ndim"), self |-> NoObject]
    ELSE LET s0 == [init_fields(data1, data2, channel_names, verbose)
                        EXCEPT !.is_epoched = (NDim(data1) = 3)]
             r == check_data(s0)
         IN IF Raised(r) THEN [exc |-> r.exc, self |-> NoObject] ELSE r

----------------------------------------------------------------------------
(* HyperIT.__convert_names_to_indices *)

\* channel_names.index(name) if isinstance(name, str) else name
NameToIndex(channel_names, name) ==
    IF IsStr(name) THEN PyInt(ListIndex(channel_names, name)) ELSE name

NameMissing(channel_names, name) ==
    IsStr(name) /\ ListIndex(channel_names, name) < 0

\* all(isinstance(item, list) for item in roi_part), for an iterable: the
\* items of a str are its characters
AllItemsAreLists(part) ==
    IF IsStr(part) THEN part.v = ""
    ELSE \A i \in 1..PyLen(part) : IsList(part.v[i])

\* The value returned, or the exception raised, for one ROI half
convert_names_to_indices(s, roi_part, participant) ==
    IF PyLen(s.channel_names) <= participant
    THEN [exc |-> Exc("IndexError", "channel_names[participant]"), val |-> PyNone]
    ELSE LET channel_names == PyAt(s.channel_names, participant)
         IN IF ~IsIterable(roi_part)
            THEN [exc |-> Exc("TypeError", "object is not iterable"), val |-> PyNone]
            ELSE IF AllItemsAreLists(roi_part)
            THEN IF IsStr(roi_part) THEN [exc |-> NoExc, val |-> PyList(<<>>)]
                 ELSE IF \E g \in 1..PyLen(roi_part) : \E i \in 1..PyLen(roi_part.v[g]) :
                        NameMissing(channel_names, roi_part.v[g].v[i])
                 THEN [exc |-> Exc("ValueError", "name not in list"), val |-> PyNone]
                 ELSE [exc |-> NoExc,
                       val |-> PyList([g \in 1..PyLen(roi_part) |->
                                  PyList([i \in 1..PyLen(roi_part.v[g]) |->
                                      NameToIndex(channel_names, roi_part.v[g].v[i])])])]
            ELSE IF IsList(roi_part)
            THEN IF \E i \in 1..PyLen(roi_part) : NameMissing(channel_names, roi_part.v[i])
                 THEN [exc |-> Exc("ValueError", "name not in list"), val |-> PyNone]
                 ELSE [exc |-> NoExc,
                       val |-> PyList([i \in 1..PyLen(roi_part) |->
                                  NameToIndex(channel_names, roi_part.v[i])])]
            ELSE IF IsStr(roi_part)
            THEN IF NameMissing(channel_names, roi_part)
                 THEN [exc |-> Exc("ValueError", "name not in list"), val |-> PyNone]
                 ELSE [exc |-> NoExc,
                       val |-> PyList(<<NameToIndex(channel_names, roi_part)>>)]
            ELSE [exc |-> NoExc, val |-> roi_part]

\* channel_names[index] if isinstance(index, int) else index; a negative
\* index counts from the end
IndexToName(channel_names, index) ==
    IF IsInt(index)
    THEN PyAt(channel_names,
              IF IntOf(index) < 0 THEN IntOf(index) + PyLen(channel_names)
              ELSE IntOf(index))
    ELSE index

\* channel_names[index] raises IndexError
IndexMissing(channel_names, index) ==
    /\ IsInt(index)
    /\ ~(IntOf(index) \in (-PyLen(channel_names))..(PyLen(channel_names) - 1))

RECURSIVE ToList(_)
\* roi_part.tolist() for an array, at every depth; the value itself otherwise
ToList(x) ==
    IF x.k = "ndarray" THEN PyList([i \in 1..PyLen(x) |-> ToList(x.v[i])]) ELSE x

\* HyperIT.__convert_indices_to_names
convert_indices_to_names(s, roi_part_arg, participant) ==
    IF PyLen(s.channel_names) <= participant
    THEN [exc |-> Exc("IndexError", "channel_names[participant]"), val |-> PyNone]
    ELSE LET channel_names == PyAt(s.channel_names, participant)
             roi_part == ToList(roi_part_arg)
         IN IF ~IsIterable(roi_part)
            THEN [exc |-> Exc("TypeError", "object is not iterable"), val |-> PyNone]
            ELSE IF AllItemsAreLists(roi_part)
            THEN IF IsStr(roi_part) THEN [exc |-> NoExc, val |-> PyList(<<>>)]
                 ELSE IF \E g \in 1..PyLen(roi_part) : \E i \in 1..PyLen(roi_part.v[g]) :
                        IndexMissing(channel_names, roi_part.v[g].v[i])
                 THEN [exc |-> Exc("IndexError", "channel_names[index]"), val |-> PyNone]
                 ELSE [exc |-> NoExc,
                       val |-> PyList([g \in 1..PyLen(roi_part) |->
                                  PyList([i \in 1..PyLen(roi_part.v[g]) |->
                                      IndexToName(channel_names, roi_part.v[g].v[i])])])]
            ELSE IF IsList(roi_part)
            THEN IF \E i \in 1..PyLen(roi_part) : IndexMissing(channel_names, roi_part.v[i])
                 THEN [exc |-> Exc("IndexError", "channel_names[index]"), val |-> PyNone]
                 ELSE [exc |-> NoExc,
                       val |-> PyList([i \in 1..PyLen(roi_part) |->
                                  IndexToName(channel_names, roi_part.v[i])])]
            ELSE [exc |-> NoExc, val |-> roi_part]

----------------------------------------------------------------------------
(* Indexing the channel axis of a signal with a list of indices *)

\* An index list numpy accepts for an axis of length n: integers within
\* -n..n-1, in a flat list or in a list of equally long lists
IndexInRange(idx, n) ==
    IF idx.k = "int" THEN idx.v < n /\ idx.v >= -n
    ELSE \A i \in 1..PyLen(idx) :
            IF idx.v[i].k = "int" THEN idx.v[i].v < n /\ idx.v[i].v >= -n
            ELSE \A j \in 1..PyLen(idx.v[i]) :
                    /\ idx.v[i].v[j].k = "int"
                    /\ idx.v[i].v[j].v < n /\ idx.v[i].v[j].v >= -n

TakeOne(chans, i) == chans.v[(i.v % PyLen(chans)) + 1]

\* chans[idx]
TakeChans(chans, idx) ==
    IF idx.k = "int" THEN TakeOne(chans, idx)
    ELSE PyArr([i \in 1..PyLen(idx) |->
            IF idx.v[i].k = "int" THEN TakeOne(chans, idx.v[i])
            ELSE PyArr([j \in 1..PyLen(idx.v[i]) |-> TakeOne(chans, idx.v[i].v[j])])])

IndexDims(idx) ==
    IF PyLen(idx) > 0 /\ idx.v[1].k # "int"
    THEN <<PyLen(idx), PyLen(idx.v[1])>>
    ELSE <<PyLen(idx)>>

RECURSIVE UnitDims(_)
\* The shape of the channel axes of a unit: () for one channel, (n,) for a
\* group of n, and one more axis for every assignment of singleton groups
\* that subsetted the retained data (line 171/174 with a list of lists)
UnitDims(ch) ==
    IF ch.k = "int" THEN <<>>
    ELSE IF PyLen(ch) = 0 THEN <<0>>
    ELSE <<PyLen(ch)>> \o UnitDims(ch.v[1])

\* data[:, idx, :] (axis = 2) or data[idx, :] (axis = 1)
SubsetData(d, idx, axis) ==
    [d EXCEPT !.chans = TakeChans(d.chans, idx),
              !.shape = SubSeq(d.shape, 1, axis - 1) \o IndexDims(idx)
                        \o SubSeq(d.shape, axis + 1, Len(d.shape))]

----------------------------------------------------------------------------
(* HyperIT.roi (setter) *)

\* Variant: one flat half is enough for the pointwise reading
IsPointwiseShape_any(roi_list) ==
    \E h \in 1..Len(roi_list.v) :
        /\ IsList(roi_list.v[h])
        /\ ~\E i \in 1..PyLen(roi_list.v[h]) : IsList(roi_list.v[h].v[i])

IsPointwiseShape(roi_list) ==
    \A h \in 1..Len(roi_list.v) :
        /\ IsList(roi_list.v[h])
        /\ ~\E i \in 1..PyLen(roi_list.v[h]) : IsList(roi_list.v[h].v[i])

IsGroupedShape(roi_list) ==
    \A h \in 1..Len(roi_list.v) :
        /\ IsList(roi_list.v[h])
        /\ \A i \in 1..PyLen(roi_list.v[h]) : IsList(roi_list.v[h].v[i])

\* Variant: the two halves' group counts are not compared
roi_scale_nocount(s, roi_list) ==
    IF IsPointwiseShape(roi_list)
    THEN [exc |-> NoExc, self |-> [s EXCEPT !.scale_of_organisation = 1]]
    ELSE IF IsGroupedShape(roi_list)
    THEN LET s1 == [s EXCEPT !.soi_groups = PyInt(PyLen(PyAt(roi_list, 0)))]
             lens == UNION {{PyLen(roi_list.v[h].v[g]) : g \in 1..PyLen(roi_list.v[h])} :
                               h \in 1..PyLen(roi_list)}
             first == CHOOSE n \in lens : TRUE
         IN IF Cardinality(lens) # 1
            THEN [exc |-> Exc("ValueError", "group sizes differ"), self |-> s1]
            ELSE [exc |-> NoExc,
                  self |-> [s1 EXCEPT !.scale_of_organisation = first,
                                      !.initialise_parameter =
                                          PyTuple(<<PyInt(first), PyInt(first)>>)]]
    ELSE [exc |-> Exc("ValueError", "structure not recognised"), self |-> s]

\* lines 134-157: the scale of organisation. The two tests run over every
\* item of roi_list, however many there are; the group counts are those of
\* roi_list[0] and roi_list[1]; group_lengths[0] is the size of the first
\* group of the first half that has one
roi_scale(s, roi_list) ==
    IF IsPointwiseShape(roi_list)
    THEN [exc |-> NoExc, self |-> [s EXCEPT !.scale_of_organisation = 1]]
    ELSE IF IsGroupedShape(roi_list)
    THEN LET num_groups_x == PyLen(PyAt(roi_list, 0))
             num_groups_y == PyLen(PyAt(roi_list, 1))
             s1 == [s EXCEPT !.soi_groups = PyInt(num_groups_x)]
             lens == UNION {{PyLen(roi_list.v[h].v[g]) : g \in 1..PyLen(roi_list.v[h])} :
                               h \in 1..PyLen(roi_list)}
             with_groups == {h \in 1..PyLen(roi_list) : PyLen(roi_list.v[h]) > 0}
             half == CHOOSE h \in with_groups : \A k \in with_groups : h <= k
             first == PyLen(roi_list.v[half].v[1])
         IN IF PyLen(roi_list) < 2
            THEN [exc |-> Exc("IndexError", "list index out of range"), self |-> s]
            ELSE IF num_groups_x # num_groups_y
            THEN [exc |-> Exc("ValueError", "group counts differ"), self |-> s]
            ELSE IF Cardinality(lens) # 1
            THEN [exc |-> Exc("ValueError", "group sizes differ"), self |-> s1]
            ELSE [exc |-> NoExc,
                  self |-> [s1 EXCEPT !.scale_of_organisation = first,
                                      !.initialise_parameter =
                                          PyTuple(<<PyInt(first), PyInt(first)>>)]]
    ELSE [exc |-> Exc("ValueError", "structure not recognised"), self |-> s]

\* lines 168-177: the pointwise subsetting of the retained data
roi_subset(s) ==
    LET axis == IF s.is_epoched THEN 2 ELSE 1
        n1 == PyLen(s.data1.chans)
        n2 == PyLen(s.data2.chans)
    IN IF s.scale_of_organisation # 1
       THEN [exc |-> NoExc, self |-> s]
       ELSE IF ~IndexInRange(s.channel_indices1, n1)
       THEN [exc |-> Exc("IndexError", "data1"), self |-> s]
       ELSE LET s1 == [s EXCEPT !.data1 = SubsetData(s.data1, s.channel_indices1, axis)]
            IN IF ~IndexInRange(s.channel_indices2, n2)
               THEN [exc |-> Exc("IndexError", "data2"), self |-> s1]
               ELSE [exc |-> NoExc,
                     self |-> [s1 EXCEPT
                         !.data2 = SubsetData(s.data2, s.channel_indices2, axis),
                         !.n_chan = PyLen(s.channel_indices1)]]

\* lines 159-161 print self._soi_groups when the object is verbose, an
\* attribute only a grouped assignment creates; line 163 unpacks roi_list into
\* exactly two halves
roi_setter(s, roi_list) ==
    LET s0 == [s EXCEPT !.roi_specified = TRUE]
        r1 == roi_scale(s0, roi_list)
    IN IF Raised(r1) THEN r1
       ELSE IF s.verbose /\ r1.self.soi_groups = PyNone
       THEN [exc |-> Exc("AttributeError", "_soi_groups"), self |-> r1.self]
       ELSE IF PyLen(roi_list) > 2
       THEN [exc |-> Exc("ValueError", "too many values to unpack"), self |-> r1.self]
       ELSE IF PyLen(roi_list) < 2
       THEN [exc |-> Exc("ValueError", "not enough values to unpack"), self |-> r1.self]
       ELSE LET c1 == convert_names_to_indices(r1.self, PyAt(roi_list, 0), 0)
            IN IF Raised(c1) THEN [exc |-> c1.exc, self |-> r1.self]
               ELSE LET s2 == [r1.self EXCEPT !.channel_indices1 = c1.val]
                        c2 == convert_names_to_indices(s2, PyAt(roi_list, 1), 1)
                    IN IF Raised(c2) THEN [exc |-> c2.exc, self |-> s2]
                       ELSE LET s3 == [s2 EXCEPT !.channel_indices2 = c2.val]
                                r3 == roi_subset(s3)
                            IN IF Raised(r3) THEN r3
                               ELSE [exc |-> NoExc,
                                     self |-> [r3.self EXCEPT !.roi =
                                         PyList(<<r3.self.channel_indices1,
                                                  r3.self.channel_indices2>>)]]

----------------------------------------------------------------------------
(* HyperIT.reset_roi *)

\* Variant: the retained data are left as the last ROI narrowed them
reset_roi_keepdata(s) ==
    LET ci1 == Arange(PyLen(PyAt(s.channel_names, 0)))
        ci2 == Arange(IF PyLen(s.channel_names) > 1
                      THEN PyLen(PyAt(s.channel_names, 1))
                      ELSE PyLen(PyAt(s.channel_names, 0)))
    IN [s EXCEPT !.roi_specified = FALSE,
                 !.scale_of_organisation = 1,
                 !.channel_indices1 = ci1,
                 !.channel_indices2 = ci2,
                 !.roi = PyList(<<ci1, ci2>>),
                 !.n_chan = PyLen(ci1)]

reset_roi(s) ==
    LET ci1 == Arange(PyLen(PyAt(s.channel_names, 0)))
        ci2 == Arange(IF PyLen(s.channel_names) > 1
                      THEN PyLen(PyAt(s.channel_names, 1))
                      ELSE PyLen(PyAt(s.channel_names, 0)))
    IN [s EXCEPT !.roi_specified = FALSE,
                 !.scale_of_organisation = 1,
                 !.channel_indices1 = ci1,
                 !.channel_indices2 = ci2,
                 !.roi = PyList(<<ci1, ci2>>),
                 !.data1 = s.all_data[1],
                 !.data2 = s.all_data[2],
                 !.n_chan = PyLen(ci1)]

----------------------------------------------------------------------------
(* Estimator selection: HyperIT.__which_mi_estimator, __which_te_estimator *)

\* The estimator tokens of the two measures (lines 422-454 and 463-495)
MiTokens == {"histogram", "ksg1", "ksg", "ksg2", "kernel", "gaussian", "symbolic"}

TeTokens == {"ksg", "ksg1", "ksg2", "kernel", "gaussian", "symbolic"}

\* estimator_type.lower(): the string with every upper-case letter replaced by
\* its lower-case letter, character by character; every other character is
\* kept (the letters are the ASCII letters)
RECURSIVE Lower(_)

Lower(token) ==
    LET lowered == [A |-> "a", B |-> "b", C |-> "c", D |-> "d", E |-> "e", F |-> "f",
                    G |-> "g", H |-> "h", I |-> "i", J |-> "j", K |-> "k", L |-> "l",
                    M |-> "m", N |-> "n", O |-> "o", P |-> "p", Q |-> "q", R |-> "r",
                    S |-> "s", T |-> "t", U |-> "u", V |-> "v", W |-> "w", X |-> "x",
                    Y |-> "y", Z |-> "z"]
        c == SubSeq(token, 1, 1)
    IN IF token = "" THEN ""
       ELSE (IF c \in DOMAIN lowered THEN lowered[c] ELSE c)
            \o Lower(SubSeq(token, 2, Len(token)))

\* The per-call configuration: the JIDT calculator chosen (PyNone for the two
\* strategies computed in Python), the effective significance flag and the
\* object, whose _initialise_parameter the symbolic TE branch overwrites
which_mi_estimator(s, estimator_type, calc_sigstats) ==
    IF estimator_type \in {"histogram", "symbolic"}
    THEN [exc |-> NoExc, self |-> s, Calc |-> PyNone, calc_sigstats |-> FALSE]
    ELSE IF estimator_type \in {"ksg1", "ksg"}
    THEN [exc |-> NoExc, self |-> s, calc_sigstats |-> calc_sigstats,
          Calc |-> PyStr("MutualInfoCalculatorMultiVariateKraskov1")]
    ELSE IF estimator_type = "ksg2"
    THEN [exc |-> NoExc, self |-> s, calc_sigstats |-> calc_sigstats,
          Calc |-> PyStr("MutualInfoCalculatorMultiVariateKraskov2")]
    ELSE IF estimator_type = "kernel"
    THEN [exc |-> NoExc, self |-> s, calc_sigstats |-> calc_sigstats,
          Calc |-> PyStr("MutualInfoCalculatorMultiVariateKernel")]
    ELSE IF estimator_type = "gaussian"
    THEN [exc |-> NoExc, self |-> s, calc_sigstats |-> calc_sigstats,
          Calc |-> PyStr("MutualInfoCalculatorMultiVariateGaussian")]
    ELSE [exc |-> Exc("ValueError", "estimator not supported"), self |-> s,
          Calc |-> PyNone, calc_sigstats |-> calc_sigstats]

\* Variant: a token outside the accepted set falls back to the kernel estimator
which_te_estimator_lenient(s, estimator_type, calc_sigstats) ==
    [exc |-> NoExc, self |-> s, calc_sigstats |-> calc_sigstats,
     Calc |-> PyStr("TransferEntropyCalculatorMultiVariateKernel")]

which_te_estimator(s, estimator_type, calc_sigstats) ==
    IF estimator_type \in {"ksg", "ksg1", "ksg2"}
    THEN [exc |-> NoExc, self |-> s, calc_sigstats |-> calc_sigstats,
          Calc |-> PyStr("TransferEntropyCalculatorMultiVariateKraskov")]
    ELSE IF estimator_type = "kernel"
    THEN [exc |-> NoExc, self |-> s, calc_sigstats |-> calc_sigstats,
          Calc |-> PyStr("TransferEntropyCalculatorMultiVariateKernel")]
    ELSE IF estimator_type = "gaussian"
    THEN [exc |-> NoExc, self |-> s, calc_sigstats |-> calc_sigstats,
          Calc |-> PyStr("TransferEntropyCalculatorMultiVariateGaussian")]
    ELSE IF estimator_type = "symbolic"
    THEN [exc |-> NoExc, calc_sigstats |-> calc_sigstats,
          self |-> [s EXCEPT !.initialise_parameter = PyInt(2)],
          Calc |-> PyStr("TransferEntropyCalculatorSymbolic")]
    ELSE [exc |-> Exc("ValueError", "estimator not supported"), self |-> s,
          Calc |-> PyNone, calc_sigstats |-> calc_sigstats]

----------------------------------------------------------------------------
(* The parameter bag: self.params = kwargs and its use by the estimators *)

PyFloat(x) == [k |-> "float", v |-> x]

PyBool(b) == [k |-> "bool", v |-> b]

\* The keyword arguments the estimators look up; PyNone marks one not supplied
ParamNames ==
    {"l", "m", "k", "k_tau", "l_tau", "delay", "kernel_width", "kraskov_param",
     "normalise", "bias_correction"}

\* self.params.get(name, default)
ParamsGet(params, name, default) ==
    IF params[name] = PyNone THEN default ELSE params[name]

\* The values an estimator works with, keyed by the keyword argument that
\* names them
UsedParams(params, defaults) ==
    [name \in DOMAIN defaults |-> ParamsGet(params, name, defaults[name])]

Normalise == [normalise |-> PyBool(TRUE)]

\* lines 422-457 with lines 724-729: the JIDT properties set from the bag;
\* __mi_symb is called without l and m and so runs with its own defaults
mi_params(estimator_type, params) ==
    IF estimator_type \in {"ksg1", "ksg", "ksg2"}
    THEN UsedParams(params, [kraskov_param |-> PyInt(4), normalise |-> PyBool(TRUE)])
    ELSE IF estimator_type = "kernel"
    THEN UsedParams(params, [kernel_width |-> PyFloat("0.25"), normalise |-> PyBool(TRUE)])
    ELSE IF estimator_type = "gaussian"
    THEN UsedParams(params, Normalise)
    ELSE IF estimator_type = "symbolic"
    THEN [l |-> PyInt(1), m |-> PyInt(3)]
    ELSE <<>>

\* lines 463-497
te_params(estimator_type, params) ==
    IF estimator_type \in {"ksg", "ksg1", "ksg2"}
    THEN UsedParams(params, [k |-> PyInt(1), k_tau |-> PyInt(1), l |-> PyInt(1),
                             l_tau |-> PyInt(1), delay |-> PyInt(1),
                             kraskov_param |-> PyInt(4), normalise |-> PyBool(TRUE)])
    ELSE IF estimator_type = "kernel"
    THEN UsedParams(params, [kernel_width |-> PyFloat("0.5"), normalise |-> PyBool(TRUE)])
    ELSE IF estimator_type = "gaussian"
    THEN UsedParams(params, [k |-> PyInt(1), k_tau |-> PyInt(1), l |-> PyInt(1),
                             l_tau |-> PyInt(1), delay |-> PyInt(1),
                             bias_correction |-> PyBool(FALSE),
                             normalise |-> PyBool(TRUE)])
    ELSE IF estimator_type = "symbolic"
    THEN UsedParams(params, [k |-> PyInt(1), normalise |-> PyBool(TRUE)])
    ELSE <<>>

----------------------------------------------------------------------------
(* Per-pair strategies *)

Zero == [f |-> "zero"]

\* The observations of one unit: the signal they come from and the channel
\* (or the channels of the group) they hold
Unit(d, ch) == [tag |-> d.tag, ch |-> ch]

\* One epoch of a unit, as handed to an estimator
Obs(u, epo, transposed) == [unit |-> u, epo |-> epo, T |-> transposed]

\* A unit whose per-epoch observations are one-dimensional
IsOneDim(u) == u.ch.k = "int"

EpochOf(s, e) == IF s.is_epoched THEN e - 1 ELSE -1

\* __mi_hist and __mi_symb: one value per epoch, shape (n_epo, 1); n numbers
\* the estimator call within the compute call. calc_fd_bins runs first in
\* __mi_hist: observations with no spread (one repeated number, or a single
\* sample of a single channel) give nan and int(nan) raises ValueError, a
\* zero interquartile range with a non-zero range gives inf and int(inf)
\* raises OverflowError. np.histogram2d and the symboliser reject
\* observations that are not one-dimensional, and the symboliser, called
\* with its default l = 1 and m = 3, cannot allocate its windows over fewer
\* than (m - 1) * l samples.
mi_python(s, fn, s1, s2, n) ==
    LET single(u) == \/ IsOneDim(u)
                     \/ \A d \in 1..Len(IndexDims(u.ch)) : IndexDims(u.ch)[d] = 1
        no_spread(u) == u.tag = 3 \/ (s.n_samples = 1 /\ single(u))
        zero_iqr(u) == u.tag = 4 /\ s.n_samples >= 5
        failed(e) == [exc |-> e, val |-> <<>>]
    IN
    IF s.n_epo = 0 THEN [exc |-> NoExc, val |-> <<>>]
    ELSE IF fn = "mi_hist" /\ (no_spread(s1) \/ no_spread(s2))
    THEN failed(Exc("ValueError", "cannot convert float NaN to integer"))
    ELSE IF fn = "mi_hist" /\ (zero_iqr(s1) \/ zero_iqr(s2))
    THEN failed(Exc("OverflowError", "cannot convert float infinity to integer"))
    ELSE IF ~(IsOneDim(s1) /\ IsOneDim(s2))
    THEN failed(Exc("ValueError", "observations not one-dimensional"))
    ELSE IF fn = "mi_symb" /\ s.n_samples < 2
    THEN failed(Exc("ValueError", "negative dimensions are not allowed"))
    ELSE [exc |-> NoExc,
          val |-> [e \in 1..s.n_epo |->
                     <<[f |-> fn, n |-> n,
                        x |-> Obs(s1, EpochOf(s, e), FALSE),
                        y |-> Obs(s2, EpochOf(s, e), FALSE)]>>]]

\* Calc.initialise(*self._initialise_parameter) if self._initialise_parameter
\* else Calc.initialise(): the arguments passed, or the TypeError of
\* unpacking an integer
InitialiseArgs(param) ==
    IF param.k = "none" THEN <<>>
    ELSE IF param.k = "tuple" THEN param.v
    ELSE <<PyStr("TypeError")>>

InitialiseRaises(param) == param.k = "int" /\ param.v # 0

\* __estimate_it: (estimate, mean, std, p-value) per epoch, shape (n_epo, 4)
estimate_it(s, cfg, s1, s2, n) ==
    IF s.n_epo > 0 /\ InitialiseRaises(s.initialise_parameter)
    THEN [exc |-> Exc("TypeError", "initialise argument"), val |-> <<>>]
    ELSE [exc |-> NoExc,
          val |-> [e \in 1..s.n_epo |->
              LET tr == s.scale_of_organisation > 1
                  call == [Calc |-> cfg.Calc,
                           initialise |-> InitialiseArgs(s.initialise_parameter),
                           n |-> n,
                           x |-> Obs(s1, EpochOf(s, e), tr),
                           y |-> Obs(s2, EpochOf(s, e), tr)]
              IN IF cfg.calc_sigstats
                 THEN <<[f |-> "estimate", call |-> call],
                        [f |-> "mean", call |-> call],
                        [f |-> "std", call |-> call],
                        [f |-> "pvalue", call |-> call]>>
                 ELSE <<[f |-> "estimate", call |-> call], Zero, Zero, Zero>>]]

----------------------------------------------------------------------------
(* The estimator handle self.Calc and the calls __estimate_it makes on it *)

\* One call on the handle, made for estimator call c and epoch e (e = 0:
\* before the loop over the epochs)
HandleCall(ev, c, e, args, x, y) ==
    [ev |-> ev, c |-> c, e |-> e, args |-> args, x |-> x, y |-> y]

\* lines 515-520 for one epoch whose initialise argument can be unpacked
epoch_events(s, cfg, s1, s2, c, e) ==
    LET tr == s.scale_of_organisation > 1
    IN <<HandleCall("initialise", c, e, InitialiseArgs(s.initialise_parameter),
                    PyNone, PyNone),
         HandleCall("setObservations", c, e, <<>>,
                    Obs(s1, EpochOf(s, e), tr), Obs(s2, EpochOf(s, e), tr)),
         HandleCall("computeAverageLocalOfObservations", c, e, <<>>, PyNone, PyNone)>>
       \o (IF cfg.calc_sigstats
           THEN <<HandleCall("computeSignificance", c, e, <<>>, PyNone, PyNone)>>
           ELSE <<>>)

RECURSIVE estimate_it_events(_, _, _, _, _, _)
\* The calls of one __estimate_it from epoch e on. Calc.initialise(*2) raises
\* TypeError while the argument is unpacked (line 515): initialise is not
\* called, and no call is made on the handle in that epoch or after it
estimate_it_events(s, cfg, s1, s2, c, e) ==
    IF e > s.n_epo THEN <<>>
    ELSE IF InitialiseRaises(s.initialise_parameter) THEN <<>>
    ELSE epoch_events(s, cfg, s1, s2, c, e)
             \o estimate_it_events(s, cfg, s1, s2, c, e + 1)

RECURSIVE compute_events(_, _, _, _)
\* The calls made on the handle by the estimator calls c.. of a compute call
\* (calls: the pairs handed to __estimate_it, up to the one that raised)
compute_events(s, cfg, calls, c) ==
    IF c > Len(calls) \/ cfg.Calc = PyNone THEN <<>>
    ELSE estimate_it_events(s, cfg, calls[c].x, calls[c].y, c, 1)
             \o compute_events(s, cfg, calls, c + 1)

\* A handle as constructed: not initialised, no observations
NewHandle == [initialised |-> FALSE, args |-> <<>>, obs |-> PyNone]

\* The handle after one call: initialise discards the observations,
\* setObservations replaces them
handle_step(h, call) ==
    IF call.ev = "initialise"
    THEN [initialised |-> TRUE, args |-> call.args, obs |-> PyNone]
    ELSE IF call.ev = "setObservations"
    THEN [initialised |-> h.initialised, args |-> h.args, obs |-> <<call.x, call.y>>]
    ELSE h

RECURSIVE handle_after(_, _, _, _)
\* The handle h after the calls lo..hi of the sequence, taken in order
handle_after(h, events, lo, hi) ==
    IF lo > hi THEN h
    ELSE IF lo = hi THEN handle_step(h, events[lo])
    ELSE LET mid == (lo + hi) \div 2
         IN handle_after(handle_after(h, events, lo, mid), events, mid + 1, hi)

\* For every call of the sequence from the k-th on, the handle it finds
run_handle(h, events, k) ==
    [i \in 1..(Len(events) - k + 1) |-> handle_after(h, events, k, k + i - 2)]

\* The script's mi_gaussian on the pair (x, y): initialise before the loop
RECURSIVE legacy_gaussian_epochs(_, _, _, _)
legacy_gaussian_epochs(x, y, is_epoched, e) ==
    IF e < 1 THEN <<>>
    ELSE legacy_gaussian_epochs(x, y, is_epoched, e - 1)
         \o <<HandleCall("setObservations", 1, e, <<>>,
                         Obs(x, IF is_epoched THEN e - 1 ELSE -1, FALSE),
                         Obs(y, IF is_epoched THEN e - 1 ELSE -1, FALSE)),
              HandleCall("computeAverageLocalOfObservations", 1, e, <<>>, PyNone, PyNone)>>

legacy_mi_gaussian(x, y, is_epoched, n_epo) ==
    <<HandleCall("initialise", 1, 0, <<>>, PyNone, PyNone)>>
        \o legacy_gaussian_epochs(x, y, is_epoched, IF is_epoched THEN n_epo ELSE 1)

----------------------------------------------------------------------------
(* The histogram strategy: HyperIT.__mi_hist and the script's mi_hist, for one
   epoch of integer samples. Sums and quotients are taken exactly. *)

SeqMin(x) == CHOOSE v \in {x[t] : t \in 1..Len(x)} : \A t \in 1..Len(x) : v <= x[t]

SeqMax(x) == CHOOSE v \in {x[t] : t \in 1..Len(x)} : \A t \in 1..Len(x) : v >= x[t]

\* np.ptp
Ptp(x) == SeqMax(x) - SeqMin(x)

\* Four times np.percentile(x, 25 * q), by linear interpolation
Percentile4(x, q) ==
    LET xs == SortSeq(x, LAMBDA a, b : a < b)
        n == Len(x)
        lo == (q * (n - 1)) \div 4
        fr == (q * (n - 1)) % 4
        hi == IF lo + 2 <= n THEN lo + 2 ELSE n
    IN 4 * xs[lo + 1] + fr * (xs[hi] - xs[lo + 1])

\* Four times stats.iqr
Iqr4(x) == Percentile4(x, 3) - Percentile4(x, 1)

\* np.ceil(np.ptp(X) / (2.0 * stats.iqr(X) * len(X)**(-1/3))): a number, or
\* inf or nan when the interquartile range is zero
FdBinsOf(x) ==
    IF Iqr4(x) = 0
    THEN [k |-> IF Ptp(x) = 0 THEN "nan" ELSE "inf", v |-> 0]
    ELSE [k |-> "num",
          v |-> CHOOSE c \in 0..(2 * Ptp(x) * Len(x)) :
                   /\ (c * Iqr4(x)) * (c * Iqr4(x)) * (c * Iqr4(x))
                          >= 8 * Ptp(x) * Ptp(x) * Ptp(x) * Len(x)
                   /\ \A d \in 0..(c - 1) :
                          (d * Iqr4(x)) * (d * Iqr4(x)) * (d * Iqr4(x))
                              < 8 * Ptp(x) * Ptp(x) * Ptp(x) * Len(x)]

\* Variant: the bin count is taken from the first sequence alone
calc_fd_bins_first(X, Y) ==
    LET fx == FdBinsOf(X)
    IN IF fx.k = "nan" THEN [exc |-> Exc("ValueError", "int(nan)"), val |-> 0]
       ELSE IF fx.k = "inf" THEN [exc |-> Exc("OverflowError", "int(inf)"), val |-> 0]
       ELSE [exc |-> NoExc, val |-> fx.v]

\* int(np.ceil((fd_bins_X + fd_bins_Y) / 2))
calc_fd_bins(X, Y) ==
    LET fx == FdBinsOf(X)
        fy == FdBinsOf(Y)
    IN IF fx.k = "nan" \/ fy.k = "nan"
       THEN [exc |-> Exc("ValueError", "int(nan)"), val |-> 0]
       ELSE IF fx.k = "inf" \/ fy.k = "inf"
       THEN [exc |-> Exc("OverflowError", "int(inf)"), val |-> 0]
       ELSE [exc |-> NoExc, val |-> (fx.v + fy.v + 1) \div 2]

\* np.histogram2d: the 0-based bin of value v among b equal bins over the
\* range lo..hi of a sequence, the maximum falling in the last bin
BinIndex(v, lo, hi, b) ==
    IF hi = lo THEN b \div 2
    ELSE IF v = hi THEN b - 1
    ELSE ((v - lo) * b) \div (hi - lo)

\* The bins of the samples of x
BinsOf(x, b) ==
    LET lo == SeqMin(x)
        hi == SeqMax(x)
    IN [t \in 1..Len(x) |-> BinIndex(x[t], lo, hi, b)]

\* np.sum over the given cells of an array of counts
RECURSIVE SumCells(_, _)
SumCells(j, cells) ==
    IF cells = {} THEN 0
    ELSE LET c == CHOOSE d \in cells : TRUE
         IN j[c] + SumCells(j, cells \ {c})

\* -np.sum(p * np.log2(p + eps)) for the probabilities counts[c] / total: the
\* sum is determined by how many cells hold each count
EntropyOf(counts, total) ==
    [f |-> "entropy", total |-> total,
     cells |-> [c \in 0..total |-> Cardinality({i \in DOMAIN counts : counts[i] = c})]]

\* Hx + Hy - Hxy
ThreeEntropies(Hx, Hy, Hxy) ==
    [plus |-> {Hx, Hy}, twice |-> Hx = Hy, minus |-> Hxy]

\* One epoch of __mi_hist
mi_hist(X, Y) ==
    LET bins == calc_fd_bins(X, Y)
        b == bins.val
        ix == 0..(b - 1)
        bx == BinsOf(X, b)
        by == BinsOf(Y, b)
        j_hist == [ac \in ix \X ix |->
                     Cardinality({t \in 1..Len(X) : bx[t] = ac[1] /\ by[t] = ac[2]})]
        px == [a \in ix |-> SumCells(j_hist, {ac \in ix \X ix : ac[1] = a})]
        py == [c \in ix |-> SumCells(j_hist, {ac \in ix \X ix : ac[2] = c})]
    IN IF Raised(bins) THEN [exc |-> bins.exc, val |-> PyNone]
       ELSE [exc |-> NoExc,
             val |-> ThreeEntropies(EntropyOf(px, Len(X)), EntropyOf(py, Len(X)),
                                    EntropyOf(j_hist, Len(X)))]

\* np.digitize(x, np.linspace(min(x), max(x), bins)): the 1-based indices
LegacyDigitize(x, bins) ==
    LET lo == SeqMin(x)
        hi == SeqMax(x)
    IN [t \in 1..Len(x) |->
          IF hi = lo THEN bins ELSE ((x[t] - lo) * (bins - 1)) \div (hi - lo) + 1]

\* One epoch of the script's mi_hist, with the bin count it is given
legacy_mi_hist(X, Y, bins) ==
    LET ix == 1..bins
        indices_X == LegacyDigitize(X, bins)
        indices_Y == LegacyDigitize(Y, bins)
        counts_X == [a \in ix |-> Cardinality({t \in 1..Len(X) : indices_X[t] = a})]
        counts_Y == [c \in ix |-> Cardinality({t \in 1..Len(Y) : indices_Y[t] = c})]
        freq == [ac \in ix \X ix |->
                   Cardinality({t \in 1..Len(X) : indices_X[t] = ac[1] /\ indices_Y[t] = ac[2]})]
    IN [exc |-> NoExc,
        val |-> ThreeEntropies(EntropyOf(counts_X, Len(X)), EntropyOf(counts_Y, Len(Y)),
                               EntropyOf(freq, Len(X)))]

----------------------------------------------------------------------------
(* The symbolic strategy *)

\* Weights that are the multiples of m
symbol_weights_multiples(m) == [i \in 1..m |-> m * (i - 1)]

\* np.power(m, np.arange(m))
symbol_weights(m) == [i \in 1..m |-> m ^ (i - 1)]

\* symb_symbolise: row k of Y.T is (X[k], X[k + l], ..., X[k + (m - 1) l]),
\* for the len(X) - (m - 1) l places k the embedding leaves
symb_symbolise(X, l, m) ==
    [k \in 1..(Len(X) - (m - 1) * l) |-> [i \in 1..m |-> X[k + (i - 1) * l]]]

\* argsort of one row: the 0-based places of its entries in ascending order.
\* The order of equal entries is left to the sort: first is TRUE when the sort
\* keeps them in the order of their places, FALSE when it reverses them
argsort(w, first) ==
    LET before(i) ==
            Cardinality({k \in 1..Len(w) :
                           \/ w[k] < w[i]
                           \/ w[k] = w[i] /\ (IF first THEN k < i ELSE k > i)})
    IN [j \in 1..Len(w) |-> (CHOOSE i \in 1..Len(w) : before(i) = j - 1) - 1]

\* (np.multiply(X, symbol_weights)).sum(1), for one row
symbol_hash(row, m) ==
    SumCells([i \in 1..m |-> row[i] * symbol_weights(m)[i]], 1..m)

\* The dictionaries p_xy, p_x and p_y after the counting loop, which runs
\* over range(len(symbol_hash_X) - 1); a key "a,b" is the pair <<a, b>>
symb_counts(hash_X, hash_Y) ==
    LET counted == 1..(Len(hash_X) - 1)
        keys_xy == {<<hash_X[i], hash_Y[i]>> : i \in counted}
        keys_x == {hash_X[i] : i \in counted}
        keys_y == {hash_Y[i] : i \in counted}
    IN [counted |-> counted,
        p_xy |-> [key \in keys_xy |->
                    Cardinality({i \in counted : <<hash_X[i], hash_Y[i]>> = key})],
        p_x |-> [key \in keys_x |-> Cardinality({i \in counted : hash_X[i] = key})],
        p_y |-> [key \in keys_y |-> Cardinality({i \in counted : hash_Y[i] = key})]]

\* One epoch of __mi_symb; np.empty refuses a negative number of windows
mi_symb(X, Y, l, m, first) ==
    LET wX == symb_symbolise(X, l, m)
        wY == symb_symbolise(Y, l, m)
        symbol_hash_X == [k \in DOMAIN wX |-> symbol_hash(argsort(wX[k], first), m)]
        symbol_hash_Y == [k \in DOMAIN wY |-> symbol_hash(argsort(wY[k], first), m)]
        d == symb_counts(symbol_hash_X, symbol_hash_Y)
        total == Cardinality(d.counted)
    IN IF Len(X) - (m - 1) * l < 0
       THEN [exc |-> Exc("ValueError", "negative dimensions"), val |-> PyNone]
       ELSE [exc |-> NoExc,
             val |-> [windows_X |-> wX, windows_Y |-> wY,
                      hash_X |-> symbol_hash_X, hash_Y |-> symbol_hash_Y,
                      p_xy |-> d.p_xy, p_x |-> d.p_x, p_y |-> d.p_y,
                      mi |-> ThreeEntropies(EntropyOf(d.p_x, total),
                                            EntropyOf(d.p_y, total),
                                            EntropyOf(d.p_xy, total))]]

\* One epoch of the script's entropy_symb, which keeps the three entropies
entropy_symb(X, Y, l, m, first) ==
    LET wX == symb_symbolise(X, l, m)
        wY == symb_symbolise(Y, l, m)
        hashmult == symbol_weights(m)
        hashval_X == [k \in DOMAIN wX |->
                        SumCells([i \in 1..m |-> argsort(wX[k], first)[i] * hashmult[i]],
                                 1..m)]
        hashval_Y == [k \in DOMAIN wY |->
                        SumCells([i \in 1..m |-> argsort(wY[k], first)[i] * hashmult[i]],
                                 1..m)]
        d == symb_counts(hashval_X, hashval_Y)
        total == Cardinality(d.counted)
    IN IF Len(X) - (m - 1) * l < 0
       THEN [exc |-> Exc("ValueError", "negative dimensions"), val |-> PyNone]
       ELSE [exc |-> NoExc,
             val |-> [windows_X |-> wX, windows_Y |-> wY,
                      hash_X |-> hashval_X, hash_Y |-> hashval_Y,
                      p_xy |-> d.p_xy, p_x |-> d.p_x, p_y |-> d.p_y,
                      entropies |-> <<EntropyOf(d.p_x, total), EntropyOf(d.p_y, total),
                                      EntropyOf(d.p_xy, total)>>]]

----------------------------------------------------------------------------
(* Matrix assembly: HyperIT.compute_mi, HyperIT.compute_te *)

\* np.zeros((u, u, n_epo, k))
Zeros(u, n_epo, k) ==
    [dims |-> <<u, u, n_epo, k>>,
     cell |-> [ij \in (0..(u - 1)) \X (0..(u - 1)) |->
                  [e \in 1..n_epo |-> [x \in 1..k |-> Zero]]]]

InMatrix(m, i, j) == i < m.dims[1] /\ j < m.dims[2]

SetCell(m, i, j, val) == [m EXCEPT !.cell[<<i, j>>] = val]

LoopRange(s) ==
    IF s.scale_of_organisation = 1 THEN s.n_chan ELSE s.soi_groups.v

\* lines 718-722: the two units of pair (i, j)
ExtractPair(s, i, j) ==
    IF s.scale_of_organisation = 1
    THEN IF i < PyLen(s.data1.chans) /\ j < PyLen(s.data2.chans)
         THEN [exc |-> NoExc,
               s1 |-> Unit(s.data1, PyAt(s.data1.chans, i)),
               s2 |-> Unit(s.data2, PyAt(s.data2.chans, j))]
         ELSE [exc |-> Exc("IndexError", "channel index")]
    ELSE IF s.scale_of_organisation > 1
    THEN IF \/ PyLen(s.roi) < 2
            \/ i >= PyLen(PyAt(s.roi, 0))
            \/ j >= PyLen(PyAt(s.roi, 1))
         THEN [exc |-> Exc("IndexError", "roi index")]
         ELSE LET g1 == PyAt(PyAt(s.roi, 0), i)
                  g2 == PyAt(PyAt(s.roi, 1), j)
              IN IF /\ IndexInRange(g1, PyLen(s.data1.chans))
                    /\ IndexInRange(g2, PyLen(s.data2.chans))
                 THEN [exc |-> NoExc,
                       s1 |-> Unit(s.data1, TakeChans(s.data1.chans, g1)),
                       s2 |-> Unit(s.data2, TakeChans(s.data2.chans, g2))]
                 ELSE [exc |-> Exc("IndexError", "channel index")]
    ELSE [exc |-> Exc("UnboundLocalError", "s1")]

\* The estimator called for one pair under the chosen configuration
MiEstimate(s, cfg, s1, s2, n) ==
    IF cfg.estimator_type = "histogram" THEN mi_python(s, "mi_hist", s1, s2, n)
    ELSE IF cfg.estimator_type = "symbolic" THEN mi_python(s, "mi_symb", s1, s2, n)
    ELSE estimate_it(s, cfg, s1, s2, n)

\* Variant: the estimate of pair (i, j) is not copied to cell (j, i)
mi_pair_nomirror(s, cfg, acc, i, j) ==
    IF Raised(acc) \/ ~(s.inter_brain \/ i # j) THEN acc
    ELSE LET p == ExtractPair(s, i, j)
         IN IF Raised(p) THEN [acc EXCEPT !.exc = p.exc]
            ELSE LET n == Len(acc.calls) + 1
                     r == MiEstimate(s, cfg, p.s1, p.s2, n)
                     calls == Append(acc.calls,
                                  [i |-> i, j |-> j, x |-> p.s1, y |-> p.s2])
                 IN IF Raised(r) THEN [acc EXCEPT !.exc = r.exc, !.calls = calls]
                    ELSE IF ~InMatrix(acc.m, i, j)
                    THEN [acc EXCEPT !.exc = Exc("IndexError", "matrix index"),
                                     !.calls = calls]
                    ELSE [acc EXCEPT !.calls = calls,
                                     !.m = SetCell(acc.m, i, j, r.val)]

\* lines 716-732: the body of the double loop for pair (i, j); acc carries
\* the matrix, the log of estimator calls and the exception raised so far
mi_pair(s, cfg, acc, i, j) ==
    IF Raised(acc) \/ ~(s.inter_brain \/ i # j) THEN acc
    ELSE LET p == ExtractPair(s, i, j)
         IN IF Raised(p) THEN [acc EXCEPT !.exc = p.exc]
            ELSE LET n == Len(acc.calls) + 1
                     r == MiEstimate(s, cfg, p.s1, p.s2, n)
                     calls == Append(acc.calls,
                                  [i |-> i, j |-> j, x |-> p.s1, y |-> p.s2])
                 IN IF Raised(r) THEN [acc EXCEPT !.exc = r.exc, !.calls = calls]
                    ELSE IF ~InMatrix(acc.m, i, j)
                    THEN [acc EXCEPT !.exc = Exc("IndexError", "matrix index"),
                                     !.calls = calls]
                    ELSE LET m1 == SetCell(acc.m, i, j, r.val)
                         IN [acc EXCEPT !.calls = calls,
                                 !.m = IF ~s.inter_brain
                                       THEN SetCell(m1, j, i, r.val) ELSE m1]

RECURSIVE mi_loop(_, _, _, _, _)
\* pairs k..(u*u - 1) in row-major order
mi_loop(s, cfg, acc, u, k) ==
    IF k >= u * u THEN acc
    ELSE mi_loop(s, cfg, mi_pair(s, cfg, acc, k \div u, k % u), u, k + 1)

\* Variant: the statistic dimension follows the significance flag
mi_alloc_collapsing(s, cfg) ==
    LET k == IF cfg.calc_sigstats THEN 4 ELSE 1
    IN IF s.scale_of_organisation = 1 \/ cfg.estimator_type \in {"histogram", "symbolic"}
       THEN Zeros(s.n_chan, s.n_epo, k)
       ELSE Zeros(s.soi_groups.v, s.n_epo, k)

\* lines 702-706: the tensor allocated for the call
mi_alloc(s, cfg) ==
    IF cfg.estimator_type \in {"histogram", "symbolic"}
    THEN Zeros(s.n_chan, s.n_epo, 1)
    ELSE IF s.scale_of_organisation = 1
    THEN Zeros(s.n_chan, s.n_epo, 4)
    ELSE Zeros(s.soi_groups.v, s.n_epo, 4)

compute_mi(s, estimator_type, calc_sigstats) ==
    LET w == which_mi_estimator(s, Lower(estimator_type), calc_sigstats)
        cfg == [estimator_type |-> Lower(estimator_type), Calc |-> w.Calc,
                calc_sigstats |-> w.calc_sigstats]
    IN IF Raised(w)
       THEN [exc |-> w.exc, self |-> w.self, cfg |-> cfg, calls |-> <<>>, ret |-> PyNone]
       ELSE LET acc == mi_loop(w.self, cfg,
                           [exc |-> NoExc, m |-> mi_alloc(w.self, cfg), calls |-> <<>>],
                           LoopRange(w.self), 0)
            IN [exc |-> acc.exc, self |-> w.self, cfg |-> cfg, calls |-> acc.calls,
                ret |-> IF Raised(acc) THEN PyNone ELSE acc.m]

\* Variant: the second estimate is made with the sequences in the same order
te_pair_noswap(s, cfg, acc, i, j) ==
    IF Raised(acc) \/ ~(s.inter_brain \/ i # j) THEN acc
    ELSE LET p == ExtractPair(s, i, j)
         IN IF Raised(p) THEN [acc EXCEPT !.exc = p.exc]
            ELSE LET n == Len(acc.calls) + 1
                     r == estimate_it(s, cfg, p.s1, p.s2, n)
                     calls == Append(acc.calls,
                                  [i |-> i, j |-> j, x |-> p.s1, y |-> p.s2])
                 IN IF Raised(r) THEN [acc EXCEPT !.exc = r.exc, !.calls = calls]
                    ELSE IF ~s.inter_brain
                    THEN [acc EXCEPT !.calls = calls, !.m = SetCell(acc.m, i, j, r.val)]
                    ELSE LET r2 == estimate_it(s, cfg, p.s1, p.s2, n + 1)
                         IN [acc EXCEPT
                                !.calls = Append(calls,
                                    [i |-> i, j |-> j, x |-> p.s1, y |-> p.s2]),
                                !.m = SetCell(acc.m, i, j, r.val),
                                !.m2 = SetCell(acc.m2, i, j, r2.val)]

\* lines 775-787: pair (i, j) of the TE loop; acc.m is X->Y, acc.m2 is Y->X
te_pair(s, cfg, acc, i, j) ==
    IF Raised(acc) \/ ~(s.inter_brain \/ i # j) THEN acc
    ELSE LET p == ExtractPair(s, i, j)
         IN IF Raised(p) THEN [acc EXCEPT !.exc = p.exc]
            ELSE LET n == Len(acc.calls) + 1
                     r == estimate_it(s, cfg, p.s1, p.s2, n)
                     calls == Append(acc.calls,
                                  [i |-> i, j |-> j, x |-> p.s1, y |-> p.s2])
                 IN IF Raised(r) THEN [acc EXCEPT !.exc = r.exc, !.calls = calls]
                    ELSE IF ~s.inter_brain
                    THEN [acc EXCEPT !.calls = calls, !.m = SetCell(acc.m, i, j, r.val)]
                    ELSE LET r2 == estimate_it(s, cfg, p.s2, p.s1, n + 1)
                         IN [acc EXCEPT
                                !.calls = Append(calls,
                                    [i |-> i, j |-> j, x |-> p.s2, y |-> p.s1]),
                                !.m = SetCell(acc.m, i, j, r.val),
                                !.m2 = SetCell(acc.m2, i, j, r2.val)]

RECURSIVE te_loop(_, _, _, _, _)
te_loop(s, cfg, acc, u, k) ==
    IF k >= u * u THEN acc
    ELSE te_loop(s, cfg, te_pair(s, cfg, acc, k \div u, k % u), u, k + 1)

\* line 768: the two tensors allocated for the call
te_alloc(s) ==
    IF s.scale_of_organisation = 1
    THEN Zeros(s.n_chan, s.n_epo, 4)
    ELSE Zeros(s.soi_groups.v, s.n_epo, 4)

compute_te(s, estimator_type, calc_sigstats) ==
    LET w == which_te_estimator(s, Lower(estimator_type), calc_sigstats)
        cfg == [estimator_type |-> Lower(estimator_type), Calc |-> w.Calc,
                calc_sigstats |-> w.calc_sigstats]
    IN IF Raised(w)
       THEN [exc |-> w.exc, self |-> w.self, cfg |-> cfg, calls |-> <<>>, ret |-> PyNone]
       ELSE LET acc == te_loop(w.self, cfg,
                           [exc |-> NoExc, m |-> te_alloc(w.self),
                            m2 |-> te_alloc(w.self), calls |-> <<>>],
                           LoopRange(w.self), 0)
            IN [exc |-> acc.exc, self |-> w.self, cfg |-> cfg, calls |-> acc.calls,
                ret |-> IF Raised(acc) THEN PyNone
                        ELSE [k |-> "tuple", v |-> <<acc.m, acc.m2>>]]

----------------------------------------------------------------------------
(* The double loops of compute_mi and compute_te with their pairs visited in
   another order *)

OrderKinds == {"rows", "columns", "rows reversed", "columns reversed"}

\* The k-th pair (k from 1) of u * u pairs, numbered i * u + j, in the order
\* of the given kind begun r pairs later
VisitOrder(u, kind, r) ==
    [k \in 1..(u * u) |->
        LET p == (k - 1 + r) % (u * u)
            q == IF kind \in {"rows reversed", "columns reversed"}
                 THEN u * u - 1 - p ELSE p
        IN IF kind \in {"columns", "columns reversed"}
           THEN (q % u) * u + (q \div u) ELSE q]

RECURSIVE mi_visit(_, _, _, _, _, _)
\* lines 713-732 with the pairs taken in the given order
mi_visit(s, cfg, acc, u, order, k) ==
    IF k > Len(order) THEN acc
    ELSE mi_visit(s, cfg, mi_pair(s, cfg, acc, order[k] \div u, order[k] % u),
                  u, order, k + 1)

compute_mi_in_order(s, estimator_type, calc_sigstats, kind, r) ==
    LET w == which_mi_estimator(s, Lower(estimator_type), calc_sigstats)
        cfg == [estimator_type |-> Lower(estimator_type), Calc |-> w.Calc,
                calc_sigstats |-> w.calc_sigstats]
    IN IF Raised(w)
       THEN [exc |-> w.exc, self |-> w.self, cfg |-> cfg, calls |-> <<>>, ret |-> PyNone]
       ELSE LET u == LoopRange(w.self)
                acc == mi_visit(w.self, cfg,
                           [exc |-> NoExc, m |-> mi_alloc(w.self, cfg), calls |-> <<>>],
                           u, VisitOrder(u, kind, r), 1)
            IN [exc |-> acc.exc, self |-> w.self, cfg |-> cfg, calls |-> acc.calls,
                ret |-> IF Raised(acc) THEN PyNone ELSE acc.m]

RECURSIVE te_visit(_, _, _, _, _, _)
\* lines 772-787 with the pairs taken in the given order
te_visit(s, cfg, acc, u, order, k) ==
    IF k > Len(order) THEN acc
    ELSE te_visit(s, cfg, te_pair(s, cfg, acc, order[k] \div u, order[k] % u),
                  u, order, k + 1)

compute_te_in_order(s, estimator_type, calc_sigstats, kind, r) ==
    LET w == which_te_estimator(s, Lower(estimator_type), calc_sigstats)
        cfg == [estimator_type |-> Lower(estimator_type), Calc |-> w.Calc,
                calc_sigstats |-> w.calc_sigstats]
    IN IF Raised(w)
       THEN [exc |-> w.exc, self |-> w.self, cfg |-> cfg, calls |-> <<>>, ret |-> PyNone]
       ELSE LET u == LoopRange(w.self)
                acc == te_visit(w.self, cfg,
                           [exc |-> NoExc, m |-> te_alloc(w.self),
                            m2 |-> te_alloc(w.self), calls |-> <<>>],
                           u, VisitOrder(u, kind, r), 1)
            IN [exc |-> acc.exc, self |-> w.self, cfg |-> cfg, calls |-> acc.calls,
                ret |-> IF Raised(acc) THEN PyNone
                        ELSE [k |-> "tuple", v |-> <<acc.m, acc.m2>>]]

----------------------------------------------------------------------------
(* HyperIT.compute_atoms *)

\* The empty dictionary a cell starts with
Empty == [f |-> "empty"]

\* [[{} for _ in range(u)] for _ in range(u)]
EmptyMap(u) ==
    [dims |-> <<u, u>>, cell |-> [ij \in (0..(u - 1)) \X (0..(u - 1)) |-> Empty]]

\* lines 827-846: how the observations of a unit are laid out for calc_PhiID
AtomsLayout(s) ==
    IF s.scale_of_organisation = 1
    THEN (IF s.is_epoched THEN "epochs flattened" ELSE "as is")
    ELSE (IF s.is_epoched THEN "epochs flattened, transposed" ELSE "transposed")

\* calc_PhiID(a, b, tau, 'gaussian', redundancy), averaged per atom; n numbers
\* the call within compute_atoms
PhiID(s, a, b, p, n) ==
    [f |-> "atoms", n |-> n, tau |-> p.tau, redundancy |-> p.redundancy,
     layout |-> AtomsLayout(s), x |-> a, y |-> b]

\* Variant: the second decomposition is called with the sequences in the same order
atoms_pair_noswap(s, p, acc, i, j) ==
    IF Raised(acc) \/ ~(s.inter_brain \/ i # j) THEN acc
    ELSE LET e == ExtractPair(s, i, j)
         IN IF Raised(e) THEN [acc EXCEPT !.exc = e.exc]
            ELSE IF /\ s.scale_of_organisation > 1 /\ s.is_epoched
                    /\ (Len(UnitDims(e.s1.ch)) # 1 \/ Len(UnitDims(e.s2.ch)) # 1)
            THEN [acc EXCEPT !.exc = Exc("ValueError", "axes don't match array")]
            ELSE LET n == Len(acc.calls) + 1
                     calls == Append(acc.calls, [i |-> i, j |-> j, x |-> e.s1, y |-> e.s2])
                     xy == SetCell(acc.m, i, j, PhiID(s, e.s1, e.s2, p, n))
                 IN IF ~s.inter_brain
                    THEN [acc EXCEPT !.calls = calls, !.m = xy]
                    ELSE [acc EXCEPT
                            !.calls = Append(calls, [i |-> i, j |-> j, x |-> e.s1, y |-> e.s2]),
                            !.m = xy,
                            !.m2 = SetCell(acc.m2, i, j, PhiID(s, e.s1, e.s2, p, n + 1))]

\* lines 825-855: pair (i, j); acc.m is the X->Y map, acc.m2 the Y->X map.
\* transpose(1, 0, 2) of line 845 raises on retained data that an earlier
\* assignment of singleton groups has given a fourth axis
atoms_pair(s, p, acc, i, j) ==
    IF Raised(acc) \/ ~(s.inter_brain \/ i # j) THEN acc
    ELSE LET e == ExtractPair(s, i, j)
         IN IF Raised(e) THEN [acc EXCEPT !.exc = e.exc]
            ELSE IF /\ s.scale_of_organisation > 1 /\ s.is_epoched
                    /\ (Len(UnitDims(e.s1.ch)) # 1 \/ Len(UnitDims(e.s2.ch)) # 1)
            THEN [acc EXCEPT !.exc = Exc("ValueError", "axes don't match array")]
            ELSE LET n == Len(acc.calls) + 1
                     calls == Append(acc.calls, [i |-> i, j |-> j, x |-> e.s1, y |-> e.s2])
                     xy == SetCell(acc.m, i, j, PhiID(s, e.s1, e.s2, p, n))
                 IN IF ~s.inter_brain
                    THEN [acc EXCEPT !.calls = calls, !.m = xy]
                    ELSE [acc EXCEPT
                            !.calls = Append(calls, [i |-> i, j |-> j, x |-> e.s2, y |-> e.s1]),
                            !.m = xy,
                            !.m2 = SetCell(acc.m2, i, j, PhiID(s, e.s2, e.s1, p, n + 1))]

RECURSIVE atoms_loop(_, _, _, _, _)
atoms_loop(s, p, acc, u, k) ==
    IF k >= u * u THEN acc
    ELSE atoms_loop(s, p, atoms_pair(s, p, acc, k \div u, k % u), u, k + 1)

\* p: the arguments tau and redundancy
compute_atoms(s, p) ==
    LET u == LoopRange(s)
        acc == atoms_loop(s, p, [exc |-> NoExc, m |-> EmptyMap(u), m2 |-> EmptyMap(u),
                                 calls |-> <<>>], u, 0)
    IN [exc |-> acc.exc, calls |-> acc.calls,
        ret |-> IF Raised(acc) THEN PyNone
                ELSE [k |-> "tuple", v |-> <<acc.m, acc.m2>>]]

----------------------------------------------------------------------------
(* compute_atoms: the sequences handed to calc_PhiID and the cell built from
   its result *)

\* One sample of the retained data: position c of the unit's channels (0 for
\* a single channel), epoch e (0 when not epoched) and time t, all from 0
Sample(c, e, t) == [c |-> c, e |-> e, t |-> t]

\* lines 827-848: the array built from unit u: its shape and, in C order
\* (flat index f), the sample found at every position.
\* Scale 1: data[i, :] as it is, data[:, i, :].reshape(-1) when epoched.
\* Scale n > 1, epoched: transpose(1, 0, 2) needs three axes and orders the
\* samples by channel, epoch and time, and reshape(-1, n) cuts that order
\* into rows of n. Scale n > 1, unepoched: .T reverses the axes (the axes
\* after the first are taken as one, which they are when all but one of them
\* have length 1)
atoms_sequence(s, u) ==
    LET D == UnitDims(u.ch)
        RECURSIVE size(_)
        size(d) == IF d = <<>> THEN 1 ELSE d[1] * size(Tail(d))
        W == size(D)
        T == s.n_samples
        E == s.n_epo
        array(dims, sample(_)) ==
            [exc |-> NoExc, dims |-> dims,
             flat |-> [f \in 0..(size(dims) - 1) |-> sample(f)]]
    IN IF s.scale_of_organisation = 1
       THEN IF s.is_epoched
            THEN array(<<E * W * T>>,
                       LAMBDA f : Sample((f % (W * T)) \div T, f \div (W * T), f % T))
            ELSE array(D \o <<T>>, LAMBDA f : Sample(f \div T, 0, f % T))
       ELSE IF s.is_epoched
            THEN IF Len(D) # 1
                 THEN [exc |-> Exc("ValueError", "axes don't match array")]
                 ELSE array(<<E * T, D[1]>>,
                            LAMBDA f : Sample(f \div (E * T), (f % (E * T)) \div T, f % T))
            ELSE LET n == D[1]
                     w == W \div n
                     inner == Tail(D)
                 IN array(<<T>> \o [k \in 1..Len(inner) |-> inner[Len(inner) + 1 - k]]
                               \o <<n>>,
                          LAMBDA f : Sample(((f % W) % n) * w + ((f % W) \div n),
                                            0, f \div W))

\* from phyid.utils import PhiID_atoms_abbr
PhiID_atoms_abbr ==
    <<"rtr", "rtx", "rty", "rts", "xtr", "xtx", "xty", "xts",
      "ytr", "ytx", "yty", "yts", "str", "stx", "sty", "sts">>

\* np.mean over the sample axis of the per-sample array of an atom
MeanOf(atom) == [f |-> "mean", atom |-> atom]

\* lines 853-854: the cell built from a decomposition result whose keys are
\* listed in the given order: the means are taken in the order of
\* PhiID_atoms_abbr and paired with the keys in the order of the result
atoms_cell(keys) ==
    LET calc_atoms == [k \in 1..Len(PhiID_atoms_abbr) |-> MeanOf(PhiID_atoms_abbr[k])]
        n == IF Len(keys) < Len(calc_atoms) THEN Len(keys) ELSE Len(calc_atoms)
    IN [name \in {keys[k] : k \in 1..n} |->
          calc_atoms[CHOOSE k \in 1..n :
                        /\ keys[k] = name
                        /\ \A j \in (k + 1)..n : keys[j] # name]]

----------------------------------------------------------------------------
(* The script version: compute_mi of IT-Hyperscanning/it.py *)

LegacyModes == {"hist", "ksg", "kernel", "gaussian", "symbolic"}

\* check_eeg_data: anything but an array is refused; data[0].shape[0] needs
\* two dimensions and data[1] a first axis of length two or more
legacy_check_eeg_data(isarray, shape, is_epoched) ==
    IF ~isarray THEN Exc("ValueError", "EEG data must be a numpy array")
    ELSE IF Len(shape) < 2 THEN Exc("IndexError", "data[0].shape[0]")
    ELSE IF shape[1] < 2 THEN Exc("IndexError", "data[1]")
    ELSE IF Len(shape) = 3 /\ ~is_epoched THEN Exc("ValueError", "is_epoched")
    ELSE IF Len(shape) > 3 THEN Exc("ValueError", "dimensions")
    ELSE NoExc

\* lines 375-379: pair (i, j) of the loop, j starting at start_j. mi_symbolic
\* (l = 1, m = 3) allocates np.empty((m, len(X) - (m - 1) * l)) for the
\* samples X of one channel (of one epoch), line 234: a negative length is a
\* ValueError, raised in the call
legacy_mi_pair(a, acc, i, j) ==
    IF j < (IF a.inter_brain THEN 0 ELSE i) \/ ~(a.inter_brain \/ i # j) THEN acc
    ELSE IF Raised(acc) THEN acc
    ELSE LET n == Len(acc.calls) + 1
             x == [tag |-> 1, ch |-> PyInt(i)]
             y == [tag |-> IF a.inter_brain THEN 2 ELSE 1, ch |-> PyInt(j)]
             v == [f |-> a.mode, n |-> n, x |-> x, y |-> y]
             m1 == SetCell(acc.m, i, j, v)
             calls == Append(acc.calls, [i |-> i, j |-> j, x |-> x, y |-> y])
         IN IF a.mode = "symbolic" /\ a.shape[Len(a.shape)] - (3 - 1) * 1 < 0
            THEN [acc EXCEPT !.calls = calls,
                             !.exc = Exc("ValueError", "negative dimensions are not allowed")]
            ELSE [acc EXCEPT !.calls = calls,
                             !.m = IF ~a.inter_brain THEN SetCell(m1, j, i, v) ELSE m1]

RECURSIVE legacy_mi_loop(_, _, _, _)
legacy_mi_loop(a, acc, n_chan, k) ==
    IF k >= n_chan * n_chan THEN acc
    ELSE legacy_mi_loop(a, legacy_mi_pair(a, acc, k \div n_chan, k % n_chan),
                        n_chan, k + 1)

\* a: the arguments (the signals being arrays or lists, their shape, what
\* their samples are like, inter_brain, is_epoched, mode, the bins keyword).
\* With mode "hist" and no bins a first pass calls calc_fd_bins on every pair
\* chan_i <= chan_j, pair (0, 0) first, before any estimator is called;
\* signal[:, i, :] raises on a two-dimensional array once a pair is indexed;
\* an estimator that raises ends the loop at its call.
legacy_compute_mi(a) ==
    LET chk == legacy_check_eeg_data(a.isarray, a.shape, a.is_epoched)
        n_chan == a.shape[IF a.is_epoched THEN 2 ELSE 1]
        zeros == [dims |-> <<n_chan, n_chan>>,
                  cell |-> [ij \in (0..(n_chan - 1)) \X (0..(n_chan - 1)) |-> Zero]]
        failed(e) == [exc |-> e, calls |-> <<>>, ret |-> PyNone]
        cannot_index == Len(a.shape) = 2 /\ a.is_epoched
        first_pass == a.mode = "hist" /\ a.bins = PyNone
        no_spread == \/ a.samples = "constant"
                     \/ ~a.is_epoched /\ a.shape[Len(a.shape)] = 1
        pairs == IF a.inter_brain THEN n_chan * n_chan
                 ELSE (n_chan * (n_chan - 1)) \div 2
    IN IF chk # NoExc THEN failed(chk)
       ELSE IF a.mode \notin LegacyModes
       THEN failed(Exc("ValueError", "mode not supported"))
       ELSE IF first_pass /\ n_chan = 0
       THEN failed(Exc("ZeroDivisionError", "fd_bins_tot / tot"))
       ELSE IF first_pass /\ cannot_index
       THEN failed(Exc("IndexError", "too many indices"))
       ELSE IF first_pass /\ no_spread
       THEN failed(Exc("ValueError", "cannot convert float NaN to integer"))
       ELSE IF first_pass /\ a.samples = "zero iqr"
       THEN failed(Exc("OverflowError", "cannot convert float infinity to integer"))
       ELSE IF pairs > 0 /\ cannot_index
       THEN failed(Exc("IndexError", "too many indices"))
       ELSE LET acc == legacy_mi_loop(a, [m |-> zeros, calls |-> <<>>, exc |-> NoExc],
                                      n_chan, 0)
            IN IF Raised(acc) THEN [exc |-> acc.exc, calls |-> acc.calls, ret |-> PyNone]
               ELSE [exc |-> NoExc, calls |-> acc.calls, ret |-> acc.m]

----------------------------------------------------------------------------
(* Inputs of the constructor *)

ChanName(i) == PyStr(<<"C1", "C2", "C3", "C4">>[i])

Labels(n) == [i \in 1..n |-> ChanName(i)]

Shapes ==
    {<<NumSamples>>}
    \cup {<<c, NumSamples>> : c \in 1..MaxChan}
    \cup {<<e, c, NumSamples>> : e \in 1..MaxEpo, c \in 1..MaxChan}
    \cup {<<1, 1, c, NumSamples>> : c \in 1..MaxChan}

LabelSeqs(kind) == {[k |-> kind, v |-> Labels(n)] : n \in 0..(MaxChan + 1)}

ChannelNameArgs ==
    {PyList(<<>>), PyList(Labels(MaxChan)),
     PyList([i \in 1..MaxChan |-> PyList(Labels(MaxChan))])}
    \cup UNION {{PyList(<<a>>) : a \in LabelSeqs(kind)} : kind \in {"list", "tuple"}}
    \cup UNION {{PyList(<<a, b>>) : a \in LabelSeqs(kind), b \in LabelSeqs(kind)} :
                    kind \in {"list", "tuple"}}

CtorArgs ==
    {[data1 |-> Signal(a1, sh1, 1), data2 |-> Signal(a2, sh2, t2), channel_names |-> cn,
      verbose |-> FALSE] :
        a1 \in BOOLEAN, a2 \in BOOLEAN, sh1 \in Shapes, sh2 \in Shapes,
        t2 \in {1, 2}, cn \in ChannelNameArgs}

\* Unepoched inter-source constructions whose second signal has no spread
\* (one repeated number, or a single sample per channel) or has five samples
\* per channel with a zero interquartile range
DegenerateArgs ==
    {[data1 |-> Signal(TRUE, d.shape, 1), data2 |-> Signal(TRUE, d.shape, d.tag),
      channel_names |-> PyList(<<PyList(Labels(MaxChan)), PyList(Labels(MaxChan))>>),
      verbose |-> FALSE] :
        d \in {[shape |-> <<MaxChan, NumSamples>>, tag |-> 3],
               [shape |-> <<MaxChan, 1>>, tag |-> 2],
               [shape |-> <<MaxChan, 5>>, tag |-> 4]}}

\* Well-formed constructions with MaxChan channels, unepoched or with MaxEpo
\* epochs, inter- and intra-source, labels given as lists or as tuples, and
\* an unepoched inter-source construction with verbose = True
ObjectArgs ==
    {a \in CtorArgs :
        /\ a.data1.isarray /\ a.data2.isarray
        /\ a.data1.shape = a.data2.shape
        /\ a.data1.shape \in {<<MaxChan, NumSamples>>, <<MaxEpo, MaxChan, NumSamples>>}
        /\ a.channel_names \in
              {PyList(<<PyList(Labels(MaxChan)), PyList(Labels(MaxChan))>>),
               PyList(<<PyTuple(Labels(MaxChan)), PyTuple(Labels(MaxChan))>>),
               PyList(<<PyTuple(Labels(MaxChan))>>),
               PyList([i \in 1..MaxChan |-> PyList(Labels(MaxChan))])}}
    \cup DegenerateArgs
    \cup {[data1 |-> Signal(TRUE, <<MaxChan, NumSamples>>, 1),
            data2 |-> Signal(TRUE, <<MaxChan, NumSamples>>, 2),
            channel_names |-> PyList(<<PyList(Labels(MaxChan)), PyList(Labels(MaxChan))>>),
            verbose |-> TRUE]}

----------------------------------------------------------------------------
(* Inputs of the ROI setter *)

N1 == ChanName(1)

N2 == ChanName(2)

NX == PyStr("ZZ")

L1(a) == PyList(<<a>>)

L2(a, b) == PyList(<<a, b>>)

FlatHalves ==
    {PyList(<<>>), L1(N1), L2(N2, N1), L1(NX), L2(N1, NX),
     L1(PyInt(1)), L2(PyInt(1), PyInt(0))}

GroupedHalves ==
    {L1(L1(N1)), L1(L2(N1, N2)), L2(L1(N2), L1(N1)), L2(L1(N1), L2(N1, N2)),
     L1(L1(NX)), L1(L2(PyInt(0), PyInt(1))), L2(L1(PyInt(1)), L1(PyInt(0))),
     L1(PyList(<<>>)), L2(L2(PyInt(0), PyInt(1)), L2(PyInt(1), PyInt(0)))}

\* A half mixing names and lists, and a half that is a bare name
OtherHalves == {L2(N1, L1(N2)), N1}

RoiHalves == FlatHalves \cup GroupedHalves \cup OtherHalves

\* Two halves, and arguments that are not two halves: none, one, three
RoiArgs ==
    {L2(h1, h2) : h1 \in RoiHalves, h2 \in RoiHalves}
    \cup {PyList(<<>>), L1(L1(N1)), L1(L1(L1(N1))),
          PyList(<<L1(N1), L1(N2), L1(N1)>>),
          PyList(<<L1(L1(N1)), L1(L1(N2)), L1(L1(N1))>>),
          PyList(<<PyList(<<>>), PyList(<<>>), L1(L2(N1, N2))>>)}

\* ROIs given by index, pointwise and grouped, for the compute calls
IndexHalves ==
    {L1(PyInt(0)), L2(PyInt(1), PyInt(0)),
     L1(L2(PyInt(0), PyInt(1))), L2(L1(PyInt(1)), L1(PyInt(0)))}

IndexRoiArgs == {L2(h1, h2) : h1 \in IndexHalves, h2 \in IndexHalves}

\* ROIs by index and by name, pointwise and grouped, and one of three halves,
\* for sequences of assignments
SeqRoiArgs ==
    IndexRoiArgs
    \cup {L2(L1(N1), L1(N2)), L2(L2(N2, N1), L2(N1, N2)),
          L2(L1(L2(N1, N2)), L1(L2(N2, N1))),
          PyList(<<L1(N1), L1(N2), L1(N1)>>)}

\* Lists and lists of groups of valid channel indices, for the conversions
ValidIndexLists ==
    IndexHalves
    \cup {PyList(<<>>), L1(PyInt(MaxChan - 1)), L2(PyInt(0), PyInt(0)),
          L2(L1(PyInt(0)), L2(PyInt(1), PyInt(0))), Arange(MaxChan),
          L1(PyInt(-1)), PyArr(<<Arange(MaxChan)>>)}

----------------------------------------------------------------------------
(* Inputs of the compute calls *)

EstimatorTokens == MiTokens \cup TeTokens \cup {"bogus", "kSG", "hISTOGRAM"}

\* Parameter bags: each of five keyword arguments supplied with a value that
\* is not its default, or not supplied
SuppliedValue ==
    [l |-> PyInt(2), m |-> PyInt(4), k |-> PyInt(2),
     kernel_width |-> PyFloat("0.7"), kraskov_param |-> PyInt(5)]

ParamBags ==
    {[name \in ParamNames |-> IF name \in given_names THEN SuppliedValue[name] ELSE PyNone] :
        given_names \in SUBSET DOMAIN SuppliedValue}

\* Sequences of NumSamples samples
SampleValues == {0, 1, 2}

SampleSeqs == [1..NumSamples -> SampleValues]

\* Pairs of equally long sequences for the symbolic strategy
SymbPairs ==
    UNION {[1..n -> SampleValues] \X [1..n -> SampleValues] :
             n \in (MaxSymbSamples - 1)..MaxSymbSamples}

\* The ordinal patterns of length m: the orders of 0..m-1 an argsort can return
Patterns(m) ==
    {p \in [1..m -> 0..(m - 1)] : \A i, j \in 1..m : p[i] = p[j] => i = j}

\* Orders in which a decomposition result may list its atoms: the order of
\* PhiID_atoms_abbr begun r names later, forwards or backwards
AtomOrders ==
    {[k \in 1..16 |->
         PhiID_atoms_abbr[(((IF back THEN 16 - k ELSE k - 1) + r) % 16) + 1]] :
       r \in 0..15, back \in BOOLEAN}

AtomsArgs == {[tau |-> 1, redundancy |-> r] : r \in {"MMI", "CCS"}}

\* Arrays of every shape whose samples have a spread, are one repeated number
\* or, with five values or more, have a zero interquartile range (values: how
\* many numbers one channel holds, over its epochs when the data are
\* epoched); the bins keyword is one of the histogram estimator; lists are
\* refused whatever they hold
LegacyArgs ==
    {a \in [isarray : BOOLEAN, shape : Shapes \cup {<<MaxChan, 1>>},
            samples : {"generic", "constant", "zero iqr"},
            inter_brain : BOOLEAN, is_epoched : BOOLEAN,
            mode : LegacyModes \cup {"bogus"}, bins : {PyNone, PyInt(MaxBins)}] :
        LET values == IF a.is_epoched /\ Len(a.shape) = 3
                      THEN a.shape[1] * a.shape[3] ELSE a.shape[Len(a.shape)]
        IN /\ a.samples = "zero iqr" => values >= 5
           /\ a.samples = "generic" => values >= 2
           /\ a.bins # PyNone => a.mode = "hist"
           /\ ~a.isarray => a.bins = PyNone /\ a.samples = "generic"}

----------------------------------------------------------------------------
(* Actions *)

Init ==
    /\ self = NoObject
    /\ last = [op |-> "none", exc |-> NoExc]
    /\ nops = 0
    /\ given = PyNone

Construct(args) ==
    \E r \in {hyperit_init(args.data1, args.data2, args.channel_names, args.verbose)} :
       /\ self' = r.self
       /\ last' = [op |-> "init", args |-> args, exc |-> r.exc]
       /\ nops' = 0
       /\ given' = args

\* One object is built per run, from the start state
ConstructAny ==
    /\ last.op = "none"
    /\ \E args \in CtorArgs : Construct(args)

ConstructObject ==
    /\ last.op = "none"
    /\ \E args \in ObjectArgs : Construct(args)

\* hyperit.roi = roi_list; prev keeps the object as it was before the call
SetRoi(roi_list) ==
    \E r \in {roi_setter(self, roi_list)} :
       /\ self' = r.self
       /\ last' = [op |-> "roi", args |-> roi_list, exc |-> r.exc, prev |-> self]
       /\ nops' = nops + 1
       /\ UNCHANGED given

SetRoiAny ==
    /\ self.alive
    /\ nops < MaxRoiOps
    /\ \E roi_list \in RoiArgs : SetRoi(roi_list)

ResetRoi ==
    /\ self.alive
    /\ nops < MaxRoiOps
    /\ self' = reset_roi(self)
    /\ last' = [op |-> "reset_roi", exc |-> NoExc]
    /\ nops' = nops + 1
    /\ UNCHANGED given

SetRoiIndex ==
    /\ self.alive
    /\ nops < MaxOps
    /\ \E roi_list \in IndexRoiArgs : SetRoi(roi_list)

ResetRoiOp ==
    /\ self.alive
    /\ nops < MaxOps
    /\ self' = reset_roi(self)
    /\ last' = [op |-> "reset_roi", exc |-> NoExc]
    /\ nops' = nops + 1
    /\ UNCHANGED given

\* The attributes a compute call sets afresh (estimator_type, calc_sigstats,
\* Calc, the result matrices) are kept in the record of the call
ComputeMI(estimator_type, calc_sigstats) ==
    \E r \in {compute_mi(self, estimator_type, calc_sigstats)} :
       /\ self' = r.self
       /\ last' = [op |-> "compute_mi", exc |-> r.exc, prev |-> self,
                   args |-> [estimator_type |-> estimator_type,
                             calc_sigstats |-> calc_sigstats],
                   cfg |-> r.cfg, calls |-> r.calls, ret |-> r.ret]
       /\ nops' = nops + 1
       /\ UNCHANGED given

ComputeMIAny ==
    /\ self.alive
    /\ nops < MaxOps
    /\ \E t \in EstimatorTokens, g \in BOOLEAN : ComputeMI(t, g)

ComputeTE(estimator_type, calc_sigstats) ==
    \E r \in {compute_te(self, estimator_type, calc_sigstats)} :
       /\ self' = r.self
       /\ last' = [op |-> "compute_te", exc |-> r.exc, prev |-> self,
                   args |-> [estimator_type |-> estimator_type,
                             calc_sigstats |-> calc_sigstats],
                   cfg |-> r.cfg, calls |-> r.calls, ret |-> r.ret]
       /\ nops' = nops + 1
       /\ UNCHANGED given

ComputeTEAny ==
    /\ self.alive
    /\ nops < MaxOps
    /\ \E t \in EstimatorTokens, g \in BOOLEAN : ComputeTE(t, g)

ComputeAtomsAny ==
    /\ self.alive
    /\ nops < MaxOps
    /\ \E p \in AtomsArgs : \E r \in {compute_atoms(self, p)} :
          last' = [op |-> "compute_atoms", exc |-> r.exc, prev |-> self,
                   args |-> p, calls |-> r.calls, ret |-> r.ret]
    /\ nops' = nops + 1
    /\ UNCHANGED <<self, given>>

\* A compute call with keyword arguments on the object as constructed:
\* self.params = kwargs (lines 695, 760), the selection sets the properties of
\* the estimator from the bag, and the loop over the pairs follows; exc is the
\* exception of the whole call, used the parameters the selected estimator
\* was given (none when the token is refused)
SelectParams ==
    /\ self.alive
    /\ last.op = "init"
    /\ nops < MaxOps
    /\ \E measure \in {"compute_mi", "compute_te"}, t \in EstimatorTokens :
          \E r \in {IF measure = "compute_mi" THEN compute_mi(self, t, FALSE)
                    ELSE compute_te(self, t, FALSE)} :
          \E params \in ParamBags :
             LET accepted == IF measure = "compute_mi" THEN MiTokens ELSE TeTokens
             IN /\ self' = r.self
                /\ last' = [op |-> "params", measure |-> measure,
                            estimator_type |-> t, params |-> params,
                            exc |-> r.exc, prev |-> self,
                            used |-> IF Lower(t) \notin accepted THEN <<>>
                                     ELSE IF measure = "compute_mi"
                                     THEN mi_params(Lower(t), params)
                                     ELSE te_params(Lower(t), params)]
    /\ nops' = nops + 1
    /\ UNCHANGED given

\* The script's compute_mi is a function of its arguments alone
LegacyComputeMI ==
    /\ last.op = "none"
    /\ \E a \in LegacyArgs :
          \E r \in {legacy_compute_mi(a)} :
             last' = [op |-> "legacy_compute_mi", args |-> a, exc |-> r.exc,
                      calls |-> r.calls, ret |-> r.ret]
    /\ UNCHANGED <<self, nops, given>>

\* Indices to names and the names back to indices, for one participant
ConvertRoundTrip ==
    /\ self.alive
    /\ last.op = "init"
    /\ \E idx \in ValidIndexLists, participant \in {0, 1} :
          LET names == convert_indices_to_names(self, idx, participant)
              back == IF Raised(names) THEN names
                      ELSE convert_names_to_indices(self, names.val, participant)
          IN last' = [op |-> "roundtrip", exc |-> back.exc,
                      args |-> [idx |-> idx, participant |-> participant],
                      names |-> names.val, back |-> back.val]
    /\ UNCHANGED <<self, nops, given>>

NextCtor == ConstructAny

SpecCtor == Init /\ [][NextCtor]_vars

NextRoi == ConstructObject \/ SetRoiAny \/ ResetRoi

SpecRoi == Init /\ [][NextRoi]_vars

SetRoiSeq ==
    /\ self.alive
    /\ nops < MaxRoiSeq
    /\ \E roi_list \in SeqRoiArgs : SetRoi(roi_list)

ResetRoiSeq ==
    /\ self.alive
    /\ nops < MaxRoiSeq
    /\ self' = reset_roi(self)
    /\ last' = [op |-> "reset_roi", exc |-> NoExc, prev |-> self]
    /\ nops' = nops + 1
    /\ UNCHANGED given

NextRoiSeq == ConstructObject \/ SetRoiSeq \/ ResetRoiSeq

SpecRoiSeq == Init /\ [][NextRoiSeq]_vars

\* The histogram strategy applied to a pair of sequences in both orders
HistBothOrders ==
    /\ last.op = "none"
    /\ \E X \in SampleSeqs, Y \in SampleSeqs :
          \E xy \in {mi_hist(X, Y)}, yx \in {mi_hist(Y, X)} :
             last' = [op |-> "mi_hist", exc |-> xy.exc, X |-> X, Y |-> Y,
                      xy |-> xy, yx |-> yx]
    /\ UNCHANGED <<self, nops, given>>

LegacyHistBothOrders ==
    /\ last.op = "none"
    /\ \E X \in SampleSeqs, Y \in SampleSeqs, bins \in 1..MaxBins :
          \E xy \in {legacy_mi_hist(X, Y, bins)}, yx \in {legacy_mi_hist(Y, X, bins)} :
             last' = [op |-> "legacy_mi_hist", exc |-> xy.exc, X |-> X, Y |-> Y,
                      bins |-> bins, xy |-> xy, yx |-> yx]
    /\ UNCHANGED <<self, nops, given>>

\* One ROI assignment on a new object
SetRoiOnce ==
    /\ last.op = "init"
    /\ SetRoiIndex

\* compute_mi as the code runs it and with its pairs visited in another
\* order, as the first compute call on the object
ComputeMIInOrder ==
    /\ self.alive
    /\ last.op \in {"init", "roi"}
    /\ nops < MaxOps
    /\ \E t \in EstimatorTokens, g \in BOOLEAN, kind \in OrderKinds, r \in {0, 1} :
          \E seq \in {compute_mi(self, t, g)},
             other \in {compute_mi_in_order(self, t, g, kind, r)} :
             /\ self' = seq.self
             /\ last' = [op |-> "compute_mi", exc |-> seq.exc, prev |-> self,
                         args |-> [estimator_type |-> t, calc_sigstats |-> g],
                         cfg |-> seq.cfg, calls |-> seq.calls, ret |-> seq.ret,
                         order |-> [kind |-> kind, r |-> r],
                         other |-> [exc |-> other.exc, ret |-> other.ret]]
    /\ nops' = nops + 1
    /\ UNCHANGED given

ComputeTEInOrder ==
    /\ self.alive
    /\ last.op \in {"init", "roi"}
    /\ nops < MaxOps
    /\ \E t \in EstimatorTokens, g \in BOOLEAN, kind \in OrderKinds, r \in {0, 1} :
          \E seq \in {compute_te(self, t, g)},
             other \in {compute_te_in_order(self, t, g, kind, r)} :
             /\ self' = seq.self
             /\ last' = [op |-> "compute_te", exc |-> seq.exc, prev |-> self,
                         args |-> [estimator_type |-> t, calc_sigstats |-> g],
                         cfg |-> seq.cfg, calls |-> seq.calls, ret |-> seq.ret,
                         order |-> [kind |-> kind, r |-> r],
                         other |-> [exc |-> other.exc, ret |-> other.ret]]
    /\ nops' = nops + 1
    /\ UNCHANGED given

NextOrder == ConstructObject \/ SetRoiOnce \/ ComputeMIInOrder \/ ComputeTEInOrder

SpecOrder == Init /\ [][NextOrder]_vars

\* A compute call with the calls it makes on the estimator handle
ComputeWithHandle ==
    /\ self.alive
    /\ last.op \in {"init", "roi"}
    /\ nops < MaxOps
    /\ \E measure \in {"compute_mi", "compute_te"}, t \in EstimatorTokens, g \in BOOLEAN :
          \E r \in {IF measure = "compute_mi" THEN compute_mi(self, t, g)
                    ELSE compute_te(self, t, g)} :
             \E events \in {compute_events(r.self, r.cfg, r.calls, 1)} :
                /\ self' = r.self
                /\ last' = [op |-> measure, exc |-> r.exc, prev |-> self,
                            args |-> [estimator_type |-> t, calc_sigstats |-> g],
                            cfg |-> r.cfg, calls |-> r.calls, ret |-> r.ret,
                            epochs |-> IF r.self.is_epoched THEN r.self.n_epo ELSE 0,
                            events |-> events,
                            handle |-> run_handle(NewHandle, events, 1)]
    /\ nops' = nops + 1
    /\ UNCHANGED given

\* The script's mi_gaussian on one pair of channels
LegacyMiGaussian ==
    /\ last.op = "none"
    /\ \E i \in 0..(MaxChan - 1), j \in 0..(MaxChan - 1), is_epoched \in BOOLEAN,
          n_epo \in 1..MaxEpo, tag \in {1, 2} :
          LET x == [tag |-> 1, ch |-> PyInt(i)]
              y == [tag |-> tag, ch |-> PyInt(j)]
          IN \E events \in {legacy_mi_gaussian(x, y, is_epoched, n_epo)} :
             last' = [op |-> "legacy_mi_gaussian", exc |-> NoExc,
                      args |-> [is_epoched |-> is_epoched, n_epo |-> n_epo],
                      cfg |-> [calc_sigstats |-> FALSE],
                      calls |-> <<[i |-> i, j |-> j, x |-> x, y |-> y]>>,
                      epochs |-> IF is_epoched THEN n_epo ELSE 0,
                      events |-> events,
                      handle |-> run_handle(NewHandle, events, 1)]
    /\ UNCHANGED <<self, nops, given>>

NextHandle == ConstructObject \/ SetRoiOnce \/ ComputeWithHandle \/ LegacyMiGaussian

SpecHandle == Init /\ [][NextHandle]_vars

\* The estimator configuration of a compute call: the handle, the
\* significance flag and the arguments initialise is given
estimator_config(s, measure, estimator_type, calc_sigstats) ==
    LET w == IF measure = "compute_mi"
             THEN which_mi_estimator(s, Lower(estimator_type), calc_sigstats)
             ELSE which_te_estimator(s, Lower(estimator_type), calc_sigstats)
    IN [exc |-> w.exc, Calc |-> w.Calc, calc_sigstats |-> w.calc_sigstats,
        initialise |-> InitialiseArgs(w.self.initialise_parameter)]

\* Two compute calls in a row on the object (the second is made whether or
\* not the first raised): the configuration the second call uses (after), and
\* the configuration the same call uses on the object as it was before the
\* first (alone)
ComputeAfterCompute ==
    /\ self.alive
    /\ last.op \in {"init", "roi"}
    /\ nops < MaxOps
    /\ \E m1 \in {"compute_mi", "compute_te"}, t1 \in EstimatorTokens,
          m2 \in {"compute_mi", "compute_te"}, t2 \in EstimatorTokens, g \in BOOLEAN :
          \E first \in {IF m1 = "compute_mi" THEN compute_mi(self, t1, g)
                        ELSE compute_te(self, t1, g)} :
          \E second \in {IF m2 = "compute_mi" THEN compute_mi(first.self, t2, g)
                         ELSE compute_te(first.self, t2, g)} :
             /\ self' = second.self
             /\ last' = [op |-> "config", exc |-> second.exc, prev |-> self,
                         first_exc |-> first.exc,
                         earlier |-> [measure |-> m1, estimator_type |-> t1],
                         args |-> [measure |-> m2, estimator_type |-> t2,
                                   calc_sigstats |-> g],
                         alone |-> estimator_config(self, m2, t2, g),
                         after |-> estimator_config(first.self, m2, t2, g)]
    /\ nops' = nops + 1
    /\ UNCHANGED given

NextConfig == ConstructObject \/ SetRoiOnce \/ ComputeAfterCompute

SpecConfig == Init /\ [][NextConfig]_vars

\* compute_atoms, with the two arrays it builds for every call of calc_PhiID
AtomsSequences ==
    /\ self.alive
    /\ last.op \in {"init", "roi"}
    /\ nops < MaxOps
    /\ \E p \in AtomsArgs : \E r \in {compute_atoms(self, p)} :
          last' = [op |-> "compute_atoms", exc |-> r.exc, prev |-> self,
                   args |-> p, calls |-> r.calls, ret |-> r.ret,
                   seqs |-> [c \in 1..Len(r.calls) |->
                               [x |-> atoms_sequence(self, r.calls[c].x),
                                y |-> atoms_sequence(self, r.calls[c].y)]]]
    /\ nops' = nops + 1
    /\ UNCHANGED <<self, given>>

\* The cell built from one decomposition result
AtomsCell ==
    /\ last.op = "none"
    /\ \E keys \in AtomOrders :
          last' = [op |-> "atoms_cell", exc |-> NoExc, keys |-> keys,
                   cell |-> atoms_cell(keys)]
    /\ UNCHANGED <<self, nops, given>>

NextAtoms == ConstructObject \/ SetRoiOnce \/ AtomsSequences \/ AtomsCell

SpecAtoms == Init /\ [][NextAtoms]_vars

\* The symbolic strategy applied to a pair of sequences
MiSymb ==
    /\ last.op = "none"
    /\ \E XY \in SymbPairs, l \in 1..MaxLag, m \in 2..MaxEmbed, first \in BOOLEAN :
          LET r == mi_symb(XY[1], XY[2], l, m, first)
          IN last' = [op |-> "mi_symb", exc |-> r.exc, X |-> XY[1], Y |-> XY[2],
                      l |-> l, m |-> m, val |-> r.val]
    /\ UNCHANGED <<self, nops, given>>

LegacyEntropySymb ==
    /\ last.op = "none"
    /\ \E XY \in SymbPairs, l \in 1..MaxLag, m \in 2..MaxEmbed, first \in BOOLEAN :
          LET r == entropy_symb(XY[1], XY[2], l, m, first)
          IN last' = [op |-> "entropy_symb", exc |-> r.exc, X |-> XY[1], Y |-> XY[2],
                      l |-> l, m |-> m, val |-> r.val]
    /\ UNCHANGED <<self, nops, given>>

NextSymb == MiSymb \/ LegacyEntropySymb

SpecSymb == Init /\ [][NextSymb]_vars

\* Two ordinal patterns of one length hashed with the weights of that length
HashPatterns ==
    /\ last.op = "none"
    /\ \E m \in 1..MaxPattern :
          \E p \in Patterns(m), q \in Patterns(m) :
             last' = [op |-> "symbol_hash", exc |-> NoExc, m |-> m, p |-> p, q |-> q,
                      hash_p |-> symbol_hash(p, m), hash_q |-> symbol_hash(q, m)]
    /\ UNCHANGED <<self, nops, given>>

NextPatterns == HashPatterns

SpecPatterns == Init /\ [][NextPatterns]_vars

NextHist == HistBothOrders \/ LegacyHistBothOrders

SpecHist == Init /\ [][NextHist]_vars

NextParams == ConstructObject \/ SelectParams

SpecParams == Init /\ [][NextParams]_vars

NextConv == ConstructObject \/ ConvertRoundTrip

SpecConv == Init /\ [][NextConv]_vars

Next ==
    \/ ConstructObject \/ SetRoiIndex \/ ResetRoiOp \/ ComputeMIAny \/ ComputeTEAny
    \/ LegacyComputeMI \/ ComputeAtomsAny

Spec == Init /\ [][Next]_vars

----------------------------------------------------------------------------
(* Construction: C5, C6, C7 (checked under SpecCtor) *)

BothArrays(args) == args.data1.isarray /\ args.data2.isarray

ValidDims(args) ==
    /\ args.data1.shape = args.data2.shape
    /\ NDim(args.data1) \in {2, 3}

\* C5: constructing an intra-source object (identical signals) with the
\* channel names given as one label sequence [[labels]], as long as the
\* channel axis, succeeds, and the object then holds two label sequences,
\* each equal to the given labels.
C5_SingleLabelSequenceDuplicated ==
    (/\ last.op = "init"
     /\ BothArrays(last.args) /\ ValidDims(last.args)
     /\ ArrayEqual(last.args.data1, last.args.data2)
     /\ last.args.channel_names =
            PyList(<<PyList(Labels(ChanAxisLen(last.args.data1.shape)))>>))
    => (/\ self.alive
        /\ self.channel_names =
               PyList(<<PyList(Labels(ChanAxisLen(last.args.data1.shape))),
                        PyList(Labels(ChanAxisLen(last.args.data1.shape)))>>))

\* Some label sequence of the channel-names argument is not as long as the
\* channel axis
LabelLengthMismatch(args) ==
    /\ PyLen(args.channel_names) > 0
    /\ \A i \in 1..PyLen(args.channel_names) :
          args.channel_names.v[i].k \in {"list", "tuple", "ndarray"}
    /\ \E i \in 1..PyLen(args.channel_names) :
          PyLen(args.channel_names.v[i]) # ChanAxisLen(args.data1.shape)

\* C6: construction with two numpy arrays raises ValueError, and produces no
\* object, whenever the two shapes differ, the dimensionality is not 2 or 3,
\* or some channel-label sequence is not as long as the channel axis.
C6_MismatchRaisesValueError ==
    (/\ last.op = "init"
     /\ BothArrays(last.args)
     /\ \/ last.args.data1.shape # last.args.data2.shape
        \/ ~(NDim(last.args.data1) \in {2, 3})
        \/ LabelLengthMismatch(last.args))
    => (last.exc.type = "ValueError" /\ ~self.alive)

\* C7: construction with a signal that is not a numpy array fails with the
\* validation error of __check_data, not with an earlier failure.
C7_NonArrayRaisesValidationError ==
    (/\ last.op = "init"
     /\ ~BothArrays(last.args))
    => last.exc = Exc("ValueError", "not numpy arrays")

----------------------------------------------------------------------------
(* ROI assignment: C3, C8, C9, C10 (checked under SpecRoi) *)

\* The ROI state of an object
RoiState(s) ==
    <<s.roi_specified, s.scale_of_organisation, s.soi_groups,
      s.initialise_parameter, s.channel_indices1, s.channel_indices2,
      s.data1, s.data2, s.n_chan, s.roi>>

\* C3: a ROI assignment that fails leaves the object in its prior ROI state:
\* flag, scale, group count, initialise argument, both index arrays, the
\* retained data and the channel count are unchanged.
C3_FailedRoiKeepsPriorState ==
    (last.op = "roi" /\ Raised(last)) => RoiState(self) = RoiState(last.prev)

\* The two halves of a ROI argument, as the specification describes them
HalvesAreLists(r) == \A h \in 1..PyLen(r) : IsList(r.v[h])

NoHalfHasSublist(r) ==
    /\ HalvesAreLists(r)
    /\ \A h \in 1..PyLen(r) : \A i \in 1..PyLen(r.v[h]) : ~IsList(r.v[h].v[i])

EveryElementIsList(r) ==
    /\ HalvesAreLists(r)
    /\ \A h \in 1..PyLen(r) : \A i \in 1..PyLen(r.v[h]) : IsList(r.v[h].v[i])

GroupSizes(r) ==
    UNION {{PyLen(r.v[h].v[g]) : g \in 1..PyLen(r.v[h])} : h \in 1..PyLen(r)}

CardinalityError(e) ==
    e.type = "ValueError" /\ e.why \in {"group counts differ", "group sizes differ"}

\* C8: assigning a grouped ROI (an argument that holds the two sources'
\* halves) raises a cardinality error whenever the two halves have different
\* numbers of groups or two groups differ in size; it is accepted only when
\* the counts match and all groups have one size n, which becomes the scale.
C8_GroupedRoiCardinality ==
    (/\ last.op = "roi"
     /\ PyLen(last.args) >= 2
     /\ EveryElementIsList(last.args) /\ ~NoHalfHasSublist(last.args))
    => LET r == last.args
           counts_match == PyLen(r.v[1]) = PyLen(r.v[2])
           one_size == Cardinality(GroupSizes(r)) = 1
       IN /\ ~(counts_match /\ one_size) => CardinalityError(last.exc)
          /\ (counts_match /\ one_size) => ~CardinalityError(last.exc)
          /\ ~Raised(last) =>
                /\ counts_match /\ one_size
                /\ {self.scale_of_organisation} = GroupSizes(r)
                /\ self.soi_groups = PyInt(PyLen(r.v[1]))

C8_Witness ==
    /\ last.op = "roi"
    /\ last.exc = Exc("ValueError", "group sizes differ")
    /\ EveryElementIsList(last.args)
    /\ PyLen(last.args.v[1]) = PyLen(last.args.v[2])

\* C9: a ROI argument is taken as pointwise when no half contains a sublist,
\* as grouped when every element of every half is a list, and is rejected
\* with the structure error in every other case. (Two empty halves fit both
\* descriptions; the pointwise test comes first. The grouped reading looks up
\* the first two halves and fails on an argument that holds one.)
C9_RoiClassification ==
    (last.op = "roi")
    => LET r == last.args
           structure_error == last.exc = Exc("ValueError", "structure not recognised")
       IN /\ structure_error <=> ~(NoHalfHasSublist(r) \/ EveryElementIsList(r))
          /\ NoHalfHasSublist(r) =>
                /\ self.scale_of_organisation = 1
                /\ ~CardinalityError(last.exc)
                /\ self.soi_groups = last.prev.soi_groups
          /\ (EveryElementIsList(r) /\ ~NoHalfHasSublist(r)) =>
                \/ CardinalityError(last.exc)
                \/ PyLen(r) < 2 /\ last.exc.type = "IndexError"
                \/ /\ {self.scale_of_organisation} = GroupSizes(r)
                   /\ self.soi_groups = PyInt(PyLen(r.v[1]))

C9_Witness ==
    /\ last.op = "roi"
    /\ last.exc = Exc("ValueError", "structure not recognised")
    /\ PyLen(last.args) = 2
    /\ NoHalfHasSublist(L2(last.args.v[1], last.args.v[1]))
    /\ EveryElementIsList(L2(last.args.v[2], last.args.v[2]))

\* The ChannelSet of a participant: the labels the object was constructed
\* with (an intra-source object given one sequence uses it for both sides)
ChannelSet(p) ==
    IF PyLen(given.channel_names) > p
    THEN PyAt(given.channel_names, p)
    ELSE PyAt(given.channel_names, 0)

IsFlatNamesIn(half, labels) ==
    /\ IsList(half)
    /\ PyLen(half) > 0
    /\ \A i \in 1..PyLen(half) :
          IsStr(half.v[i]) /\ \E k \in 1..PyLen(labels) : labels.v[k] = half.v[i]

PositionsIn(half, labels) ==
    PyList([i \in 1..PyLen(half) |-> PyInt(ListIndex(labels, half.v[i]))])

\* C10: converting a flat list of channel names of a participant's
\* ChannelSet yields their positions in that ChannelSet, in order, with no
\* lookup error; this is what a pointwise assignment by names stores for the
\* two sides.
C10_NamesBecomePositions ==
    (/\ last.op = "roi"
     /\ PyLen(last.args) = 2
     /\ IsFlatNamesIn(last.args.v[1], ChannelSet(0))
     /\ IsFlatNamesIn(last.args.v[2], ChannelSet(1)))
    => /\ last.exc.why \notin {"name not in list", "channel_names[participant]"}
       /\ self.channel_indices1 = PositionsIn(last.args.v[1], ChannelSet(0))
       /\ self.channel_indices2 = PositionsIn(last.args.v[2], ChannelSet(1))

----------------------------------------------------------------------------
(* Matrix assembly: C1, C2, C4 (checked under Spec) *)

Returned(op) == last.op = op /\ ~Raised(last)

AllZero(m, i, j) ==
    \A e \in 1..m.dims[3] : \A x \in 1..m.dims[4] : m.cell[<<i, j>>][e][x] = Zero

\* An intra-source call of compute_mi, of the class or of the script
IntraMiCall ==
    \/ last.op = "compute_mi" /\ ~last.prev.inter_brain
    \/ last.op = "legacy_compute_mi" /\ ~last.args.inter_brain

\* C1: on intra-source input the tensor returned by compute_mi is symmetric,
\* no diagonal pair (i, i) is passed to an estimator, and every diagonal cell
\* keeps its zero fill.
C1_IntraMiSymmetric ==
    IntraMiCall
    => /\ \A c \in 1..Len(last.calls) : last.calls[c].i # last.calls[c].j
       /\ ~Raised(last) =>
             LET m == last.ret
                 ix == 0..(m.dims[1] - 1)
             IN /\ m.dims[1] = m.dims[2]
                /\ \A i \in ix : \A j \in ix : m.cell[<<i, j>>] = m.cell[<<j, i>>]
                /\ \A i \in ix :
                      IF last.op = "compute_mi" THEN AllZero(m, i, i)
                      ELSE m.cell[<<i, i>>] = Zero

C1_Witness ==
    /\ Returned("compute_mi")
    /\ ~last.prev.inter_brain
    /\ last.ret.dims[1] >= 2
    /\ last.ret.cell[<<0, 1>>][1][1] # Zero
    /\ Len(last.calls) >= 2

\* The estimate held in entry 0 of epoch e of cell (i, j)
EstimateAt(m, i, j, e) == m.cell[<<i, j>>][e][1]

IsTeEstimate(v) == v # Zero /\ v.f = "estimate"

\* C2: compute_te returns two tensors. Inter-source: every pair (i, j),
\* i = j included, is estimated in both directions, the Y->X cell from the
\* estimator called with the two sequences swapped. Intra-source: Y->X is
\* never estimated, the second tensor is all zero, and the first holds an
\* estimate for every i # j.
C2_TeTwoTensors ==
    Returned("compute_te")
    => LET xy == last.ret.v[1]
           yx == last.ret.v[2]
           ix == 0..(xy.dims[1] - 1)
           epochs == 1..xy.dims[3]
       IN /\ last.ret.k = "tuple" /\ Len(last.ret.v) = 2
          /\ xy.dims = yx.dims
          /\ self.inter_brain =>
                /\ Len(last.calls) = 2 * Cardinality(ix \X ix)
                /\ \A i \in ix : \A j \in ix : \A e \in epochs :
                      LET a == EstimateAt(xy, i, j, e)
                          b == EstimateAt(yx, i, j, e)
                      IN /\ IsTeEstimate(a) /\ IsTeEstimate(b)
                         /\ b.call.x = a.call.y /\ b.call.y = a.call.x
                         /\ a.call.x.unit.tag = self.data1.tag
                         /\ a.call.n # b.call.n
          /\ ~self.inter_brain =>
                /\ Len(last.calls) = Cardinality({p \in ix \X ix : p[1] # p[2]})
                /\ \A i \in ix : \A j \in ix : AllZero(yx, i, j)
                /\ \A i \in ix : \A j \in ix : \A e \in epochs :
                      i # j => IsTeEstimate(EstimateAt(xy, i, j, e))

C2_Witness ==
    /\ Returned("compute_te")
    /\ self.inter_brain
    /\ last.ret.v[1].dims[1] >= 2
    /\ IsTeEstimate(EstimateAt(last.ret.v[2], 0, 1, 1))

\* The tensors a compute call returned
ReturnedTensors ==
    IF last.op = "compute_mi" THEN {last.ret} ELSE {last.ret.v[1], last.ret.v[2]}

SigstatsSupported ==
    ~(last.op = "compute_mi"
      /\ Lower(last.args.estimator_type) \in {"histogram", "symbolic"})

\* C4 (as stated): the statistic dimension has length 1 whenever significance
\* testing is unsupported or disabled, and length 4 only when it is both
\* supported and enabled.
C4_StatDimCollapses ==
    (Returned("compute_mi") \/ Returned("compute_te"))
    => \A m \in ReturnedTensors :
          m.dims[4] = IF SigstatsSupported /\ last.args.calc_sigstats THEN 4 ELSE 1

\* C4 (amended): the statistic dimension has length 1 exactly for compute_mi
\* with the histogram or symbolic estimator; for every other estimator, and
\* for both tensors of compute_te, it has length 4 whether or not significance
\* testing is enabled, and with testing disabled entries 1-3 of every cell
\* keep their zero fill.
C4_StatDimByEstimator ==
    (Returned("compute_mi") \/ Returned("compute_te"))
    => \A m \in ReturnedTensors :
          /\ m.dims[4] = IF SigstatsSupported THEN 4 ELSE 1
          /\ (SigstatsSupported /\ ~last.args.calc_sigstats) =>
                \A ij \in DOMAIN m.cell : \A e \in 1..m.dims[3] :
                    /\ Len(m.cell[ij][e]) = 4
                    /\ \A x \in 2..4 : m.cell[ij][e][x] = Zero
          /\ \A ij \in DOMAIN m.cell : \A e \in 1..m.dims[3] :
                Len(m.cell[ij][e]) = m.dims[4]

C4_Witness ==
    /\ Returned("compute_mi")
    /\ last.args.estimator_type = "gaussian"
    /\ ~last.args.calc_sigstats
    /\ last.ret.dims = <<MaxChan, MaxChan, self.n_epo, 4>>
    /\ IsTeEstimate(EstimateAt(last.ret, 0, 1, 1))

----------------------------------------------------------------------------
(* Conversions: C11 (checked under SpecConv) *)

\* C11: converting a list (or list of groups) of valid channel indices to
\* names and the names back to indices, through one participant's ChannelSet,
\* yields the original indices.
C11_IndicesRoundTrip ==
    (last.op = "roundtrip")
    => /\ ~Raised(last)
       /\ last.back = ToList(last.args.idx)

----------------------------------------------------------------------------
(* Sequences of ROI assignments: C12, C13 (checked under SpecRoiSeq) *)

\* C12: after reset_roi, whatever ROI assignments came before, the object is
\* back to the full pointwise ROI: scale 1, roi [0..n-1] for both sides with n
\* the original channel count, channel count n, and the retained data are the
\* signals originally supplied.
C12_ResetRestoresFullRoi ==
    (last.op = "reset_roi")
    => LET n == ChanAxisLen(given.data1.shape)
       IN /\ self.scale_of_organisation = 1
          /\ ~self.roi_specified
          /\ self.roi = PyList(<<Arange(n), Arange(n)>>)
          /\ self.n_chan = n
          /\ self.data1 = given.data1 /\ self.data2 = given.data2

C12_Witness ==
    /\ last.op = "reset_roi"
    /\ nops = 3
    /\ last.prev.roi_specified
    /\ last.prev.data1 # given.data1
    /\ last.prev.n_chan < self.n_chan

\* The channels of the originally supplied signal that an index list selects
OriginalChannels(orig, idx) == PyArr([k \in 1..PyLen(idx) |-> PyAt(orig.chans, idx.v[k].v)])

\* C13: after a successful pointwise ROI assignment, also one made while an
\* earlier ROI is in effect, each side's retained data has len(roi) channels,
\* the k-th being channel roi[k] of the signal originally supplied; a grouped
\* assignment leaves the retained data and the channel count unchanged.
C13_RetainedDataFollowsRoi ==
    (last.op = "roi" /\ ~Raised(last))
    => /\ NoHalfHasSublist(last.args) =>
             /\ self.data1.chans = OriginalChannels(given.data1, self.roi.v[1])
             /\ self.data2.chans = OriginalChannels(given.data2, self.roi.v[2])
             /\ self.n_chan = PyLen(self.roi.v[1])
       /\ ~NoHalfHasSublist(last.args) =>
             /\ self.data1 = last.prev.data1 /\ self.data2 = last.prev.data2
             /\ self.n_chan = last.prev.n_chan

----------------------------------------------------------------------------
(* Estimator selection: C14, C15 (checked under Spec) *)

\* The tokens each measure accepts, a token being read whatever its case
AcceptedTokens(op) ==
    IF op = "compute_mi"
    THEN {"histogram", "ksg1", "ksg", "ksg2", "kernel", "gaussian", "symbolic"}
    ELSE {"ksg", "ksg1", "ksg2", "kernel", "gaussian", "symbolic"}

ComputeCall == last.op \in {"compute_mi", "compute_te"}

\* C14: for a token outside the accepted set of the called measure,
\* compute_mi and compute_te raise the unsupported-estimator error before any
\* pair is extracted or estimated and before any tensor is returned.
C14_UnknownTokenRaisesFirst ==
    (ComputeCall /\ Lower(last.args.estimator_type) \notin AcceptedTokens(last.op))
    => /\ last.exc = Exc("ValueError", "estimator not supported")
       /\ last.calls = <<>>
       /\ last.ret = PyNone
       /\ self = last.prev

C14_Witness ==
    /\ last.op = "compute_te"
    /\ last.args.estimator_type = "histogram"
    /\ last.exc.type = "ValueError"
    /\ last.prev.n_chan >= 2

\* C15: when the token is histogram or symbolic and the measure accepts it,
\* the effective significance flag after estimator selection is false,
\* whatever calc_sigstats the caller passed, for compute_mi and compute_te.
C15_NoSigstatsForHistSymbolic ==
    (/\ ComputeCall
     /\ Lower(last.args.estimator_type) \in {"histogram", "symbolic"}
     /\ Lower(last.args.estimator_type) \in AcceptedTokens(last.op))
    => ~last.cfg.calc_sigstats

----------------------------------------------------------------------------
(* Decomposition maps: C16 (checked under Spec) *)

\* C16: compute_atoms returns two U x U maps. Inter-source: every cell of
\* both maps is filled, the Y->X cell from the decomposition called with the
\* two sequences swapped. Intra-source: the decomposition is never called for
\* i = j, the diagonal of the X->Y map stays empty and so does every cell of
\* the Y->X map.
C16_AtomsTwoMaps ==
    Returned("compute_atoms")
    => LET xy == last.ret.v[1]
           yx == last.ret.v[2]
           u == IF self.scale_of_organisation = 1 THEN self.n_chan
                ELSE self.soi_groups.v
           ix == 0..(u - 1)
       IN /\ Len(last.ret.v) = 2
          /\ xy.dims = <<u, u>> /\ yx.dims = <<u, u>>
          /\ self.inter_brain =>
                \A i \in ix : \A j \in ix :
                    LET a == xy.cell[<<i, j>>]
                        b == yx.cell[<<i, j>>]
                    IN /\ a # Empty /\ b # Empty
                       /\ b.x = a.y /\ b.y = a.x
                       /\ a.x.tag = self.data1.tag /\ a.y.tag = self.data2.tag
          /\ ~self.inter_brain =>
                /\ \A c \in 1..Len(last.calls) : last.calls[c].i # last.calls[c].j
                /\ \A i \in ix : xy.cell[<<i, i>>] = Empty
                /\ \A i \in ix : \A j \in ix : yx.cell[<<i, j>>] = Empty
                /\ \A i \in ix : \A j \in ix : i # j => xy.cell[<<i, j>>] # Empty

C16_Witness ==
    /\ Returned("compute_atoms")
    /\ self.inter_brain
    /\ last.ret.v[2].dims[1] >= 2
    /\ last.ret.v[2].cell[<<0, 1>>] # Empty
    /\ last.ret.v[2].cell[<<0, 1>>].x.ch # last.ret.v[2].cell[<<0, 1>>].y.ch

----------------------------------------------------------------------------
(* Estimator parameters: C17 (checked under SpecParams) *)

\* The documented defaults of the parameters of each estimator
DocumentedDefaults(measure, token) ==
    IF token = "symbolic" /\ measure = "compute_mi"
    THEN [l |-> PyInt(1), m |-> PyInt(3)]
    ELSE IF token \in {"ksg", "ksg1", "ksg2"}
    THEN [kraskov_param |-> PyInt(4), normalise |-> PyBool(TRUE)]
    ELSE IF token = "kernel"
    THEN [kernel_width |-> IF measure = "compute_mi" THEN PyFloat("0.25")
                                                      ELSE PyFloat("0.5")]
    ELSE IF token = "gaussian" /\ measure = "compute_te"
    THEN [k |-> PyInt(1), k_tau |-> PyInt(1), delay |-> PyInt(1),
          bias_correction |-> PyBool(FALSE)]
    ELSE IF token = "gaussian"
    THEN [normalise |-> PyBool(TRUE)]
    ELSE <<>>

\* C17: every estimator parameter the caller supplies is the value the chosen
\* estimator uses, and one not supplied takes its documented default; in
\* particular a lag or embedding dimension supplied for the symbolic MI
\* estimator is used instead of lag 1, dimension 3.
C17_SuppliedParametersUsed ==
    (last.op = "params" /\ Lower(last.estimator_type) \in AcceptedTokens(last.measure))
    => LET doc == DocumentedDefaults(last.measure, Lower(last.estimator_type))
       IN \A name \in DOMAIN doc :
             /\ name \in DOMAIN last.used
             /\ last.used[name] = IF last.params[name] # PyNone
                                  THEN last.params[name] ELSE doc[name]

----------------------------------------------------------------------------
(* The histogram strategy: C18 (checked under SpecHist) *)

\* C18: the histogram strategy is symmetric in its two arguments:
\* mi_hist(X, Y) equals mi_hist(Y, X) for every pair of equal-length sequences.
C18_HistSymmetric ==
    (last.op \in {"mi_hist", "legacy_mi_hist"}) => last.xy = last.yx

\* Two different sequences that are not binned alike, so that the joint mass
\* is spread off the diagonal, estimated in both orders
C18_Witness ==
    /\ last.op = "mi_hist"
    /\ ~Raised(last)
    /\ last.X # last.Y
    /\ last.xy.val.minus \notin last.xy.val.plus
    /\ \E t \in 1..NumSamples : last.X[t] < last.Y[t]
    /\ \E t \in 1..NumSamples : last.X[t] > last.Y[t]

----------------------------------------------------------------------------
(* Estimator calls of an intra-source compute_mi: C19 (checked under Spec) *)

\* The estimator calls made for the unordered pair {i, j}
CallsFor(i, j) ==
    {c \in 1..Len(last.calls) :
        {last.calls[c].i, last.calls[c].j} = {i, j}}

\* The units the double loop of the last call ranges over
UnitsOfCall ==
    IF last.op = "compute_mi" THEN 0..(LoopRange(self) - 1)
    ELSE 0..(last.ret.dims[1] - 1)

\* C19: in an intra-source compute_mi the estimator is invoked exactly once
\* per unordered pair {i, j} with i # j, the other cell of the pair being
\* filled by mirroring and not by a second estimation.
C19_OneEstimatePerUnorderedPair ==
    (IntraMiCall /\ ~Raised(last))
    => \A i \in UnitsOfCall : \A j \in UnitsOfCall :
          i # j => Cardinality(CallsFor(i, j)) = 1

----------------------------------------------------------------------------
(* The order of the pairs: C20 (checked under SpecOrder) *)

\* An estimate as a function of its two ordered arguments: the number of the
\* estimator call within the compute call is dropped
EstimateOf(v) ==
    IF v = Zero THEN v
    ELSE IF "call" \in DOMAIN v THEN [v EXCEPT !.call.n = 0]
    ELSE [v EXCEPT !.n = 0]

EstimatesOf(m) ==
    [dims |-> m.dims,
     cell |-> [ij \in DOMAIN m.cell |->
                 [e \in DOMAIN m.cell[ij] |->
                    [x \in DOMAIN m.cell[ij][e] |-> EstimateOf(m.cell[ij][e][x])]]]]

TensorsOf(ret) ==
    IF ret = PyNone THEN <<>>
    ELSE IF "dims" \in DOMAIN ret THEN <<EstimatesOf(ret)>>
    ELSE <<EstimatesOf(ret.v[1]), EstimatesOf(ret.v[2])>>

\* C20: the tensor returned by compute_mi or compute_te does not depend on
\* the order in which the pairs (i, j) are visited, for an estimator that is
\* a deterministic function of its two ordered arguments.
C20_OrderOfPairsIrrelevant ==
    (last.op \in {"compute_mi", "compute_te"} /\ "order" \in DOMAIN last)
    => /\ Raised(last) <=> Raised(last.other)
       /\ TensorsOf(last.ret) = TensorsOf(last.other.ret)

----------------------------------------------------------------------------
(* The estimator handle: C21 (checked under SpecHandle) *)

HandleOps == {"compute_mi", "compute_te", "legacy_mi_gaussian"}

HasEvents == last.op \in HandleOps /\ "events" \in DOMAIN last

\* The epoch index of the observations of epoch e in the last call
EpochIndex(e) == IF last.epochs > 0 THEN e - 1 ELSE -1

\* Observations <<x, y>> are those of estimator call c and epoch e
OwnObservations(obs, c, e) ==
    /\ obs # PyNone
    /\ obs[1].unit = last.calls[c].x /\ obs[1].epo = EpochIndex(e)
    /\ obs[2].unit = last.calls[c].y /\ obs[2].epo = EpochIndex(e)

\* Call k is an estimate asked right after the observations of its own pair
\* and epoch were set, of a handle that holds them; with significance
\* enabled, and only then, the statistics are asked next of the same handle
EstimateInOrder(k) ==
    LET ev == last.events[k]
    IN /\ k > 1
       /\ last.events[k - 1].ev = "setObservations"
       /\ last.events[k - 1].c = ev.c /\ last.events[k - 1].e = ev.e
       /\ OwnObservations(last.handle[k].obs, ev.c, ev.e)
       /\ last.cfg.calc_sigstats
             => /\ k < Len(last.events)
                /\ last.events[k + 1].ev = "computeSignificance"
                /\ OwnObservations(last.handle[k + 1].obs, ev.c, ev.e)
       /\ ~last.cfg.calc_sigstats
             => (k < Len(last.events) => last.events[k + 1].ev # "computeSignificance")

\* The call before call k initialises the handle, for the same pair: the
\* handle is initialised anew for the epoch of call k
InitialisedForEpoch(k) ==
    /\ k > 1
    /\ last.events[k - 1].ev = "initialise"
    /\ last.events[k - 1].c = last.events[k].c

\* C21: in the delegated strategy, for every pair and every epoch the handle
\* is initialised, then given that pair-and-epoch's observations, then asked
\* for the estimate and then (only with significance enabled) for the
\* significance statistics; nothing is computed from observations set for
\* another pair, direction or epoch.
C21_HandleInitialisedPerEpoch ==
    HasEvents
    => \A k \in 1..Len(last.events) :
          /\ last.events[k].ev = "setObservations" => InitialisedForEpoch(k)
          /\ last.events[k].ev = "computeAverageLocalOfObservations" => EstimateInOrder(k)
          /\ last.events[k].ev = "computeSignificance"
                => k > 1 /\ last.events[k - 1].ev = "computeAverageLocalOfObservations"

----------------------------------------------------------------------------
(* Dimensions and layout handed to the handle: C22 (checked under Spec) *)

\* The calls the last compute call made on the handle
EventsOfCall == compute_events(self, last.cfg, last.calls, 1)

\* C22: at every delegated estimation, after any sequence of ROI assignments,
\* resets and earlier compute calls, the handle is initialised with
\* dimensions (n, n) and fed sequences transposed to (samples, n) exactly
\* when the current scale n is greater than 1, and is initialised without a
\* dimension argument and fed one-dimensional sequences when the scale is 1.
C22_InitialiseFollowsScale ==
    (last.op \in {"compute_mi", "compute_te"})
    => LET n == self.scale_of_organisation
       IN \A k \in 1..Len(EventsOfCall) :
             LET call == EventsOfCall[k]
             IN /\ call.ev = "initialise"
                   => call.args = IF n > 1 THEN <<PyInt(n), PyInt(n)>> ELSE <<>>
                /\ call.ev = "setObservations"
                   => /\ call.x.T = (n > 1) /\ call.y.T = (n > 1)
                      /\ n = 1 => IsOneDim(call.x.unit) /\ IsOneDim(call.y.unit)

----------------------------------------------------------------------------
(* The configuration of a compute call: C23 (checked under SpecConfig) *)

\* C23: the estimator configuration a compute_mi or compute_te call uses
\* (handle, significance flag, initialise argument) is determined by the
\* call's arguments and the current ROI alone, never by an earlier compute
\* call on the same object.
C23_ConfigIndependentOfEarlierCalls ==
    (last.op = "config") => last.after = last.alone

----------------------------------------------------------------------------
(* compute_atoms: C24 and C25 (checked under SpecAtoms) *)

\* Column c of the array holds the samples of channel c of the unit, the
\* epochs one after the other
ColumnsAreChannels(seq, T) ==
    /\ seq.exc = NoExc
    /\ Len(seq.dims) = 2
    /\ \A r \in 0..(seq.dims[1] - 1) : \A c \in 0..(seq.dims[2] - 1) :
          seq.flat[r * seq.dims[2] + c] = Sample(c, r \div T, r % T)

\* C24: for grouped, epoched input each sequence compute_atoms passes to the
\* decomposition has shape (epochs x samples, n), column c holding exactly
\* the samples of the group's c-th channel with the epochs concatenated in
\* ascending order; no column mixes samples of different channels.
C24_GroupedEpochedColumns ==
    (/\ last.op = "compute_atoms"
     /\ last.prev.scale_of_organisation > 1
     /\ last.prev.is_epoched)
    => \A c \in 1..Len(last.seqs) :
          /\ last.seqs[c].x.dims =
                <<last.prev.n_epo * last.prev.n_samples, last.prev.scale_of_organisation>>
          /\ last.seqs[c].y.dims = last.seqs[c].x.dims
          /\ ColumnsAreChannels(last.seqs[c].x, last.prev.n_samples)
          /\ ColumnsAreChannels(last.seqs[c].y, last.prev.n_samples)

\* C25: every filled cell returned by compute_atoms maps each of the 16
\* canonical atom names to the mean over the sample axis of that same atom's
\* per-sample array, whatever order the decomposition lists its atoms in.
C25_CellMapsNameToItsMean ==
    (last.op = "atoms_cell")
    => /\ DOMAIN last.cell = {PhiID_atoms_abbr[k] : k \in 1..16}
       /\ \A name \in DOMAIN last.cell : last.cell[name] = MeanOf(name)

----------------------------------------------------------------------------
(* Self-comparisons of intra-source calls: C26 (checked under Spec) *)

\* Source-side unit k and target-side unit k of the object the last call was
\* made on are the same channels of the same signal
SameUnit(k) ==
    LET e == ExtractPair(last.prev, k, k)
    IN Raised(e) \/ e.s1 = e.s2

\* C26: in intra-source mode, for every pair skipped as a self-comparison and
\* every pair whose MI value is mirrored, source-side unit k and target-side
\* unit k denote the same channel(s) of the signal, also after a ROI
\* assignment whose two halves select different channels.
C26_SelfComparisonIsSameUnit ==
    (/\ last.op \in {"compute_mi", "compute_te", "compute_atoms"}
     /\ ~last.prev.inter_brain
     /\ ~Raised(last))
    => \A k \in 0..(LoopRange(last.prev) - 1) : SameUnit(k)

----------------------------------------------------------------------------
(* The tensor compute_mi allocates: C27 (checked under Spec) *)

\* C27: for every estimator token, histogram and symbolic included, and every
\* ROI scale, the first two dimensions of the tensor compute_mi allocates
\* equal the number of units the double loop ranges over.
C27_AllocatedDimsAreLoopRange ==
    (last.op = "compute_mi" /\ last.cfg.estimator_type \in MiTokens)
    => LET m == mi_alloc(self, last.cfg)
       IN m.dims[1] = LoopRange(self) /\ m.dims[2] = LoopRange(self)

----------------------------------------------------------------------------
(* Scale and form of a ROI: C28 (checked under SpecRoi) *)

\* C28: after a successful ROI assignment the recorded scale is 1 if and
\* only if the ROI was given in pointwise form; a ROI given in grouped form,
\* one whose groups each hold a single channel included, is never handled by
\* the pointwise path that subsets the retained data and resets the channel
\* count.
C28_ScaleOneIffPointwise ==
    (last.op = "roi" /\ ~Raised(last))
    => /\ self.scale_of_organisation = 1 <=> NoHalfHasSublist(last.args)
       /\ ~NoHalfHasSublist(last.args)
             => /\ self.data1 = last.prev.data1
                /\ self.data2 = last.prev.data2
                /\ self.n_chan = last.prev.n_chan

----------------------------------------------------------------------------
(* The symbolic strategy: C29 (checked under SpecSymb), C30 (SpecPatterns) *)

IsSymb == last.op \in {"mi_symb", "entropy_symb"} /\ ~Raised(last)

NumWindows == Len(last.X) - (last.m - 1) * last.l

\* The window of sequence z that starts at its k-th sample
WindowAt(z, k) == [i \in 1..last.m |-> z[k + (i - 1) * last.l]]

\* C29: for a sequence of N samples, lag l and embedding dimension m, the
\* joint and the marginal distributions are built from all N - (m-1) l
\* embedded windows, window k being (X[k], X[k+l], ..., X[k+(m-1)l]), and
\* each window adds exactly one count to the joint and to each marginal.
C29_EveryWindowCounted ==
    IsSymb
    => /\ Len(last.val.windows_X) = NumWindows
       /\ \A k \in 1..NumWindows :
             /\ last.val.windows_X[k] = WindowAt(last.X, k)
             /\ last.val.windows_Y[k] = WindowAt(last.Y, k)
       /\ \A key \in DOMAIN last.val.p_x :
             last.val.p_x[key]
               = Cardinality({k \in 1..NumWindows : last.val.hash_X[k] = key})
       /\ \A key \in DOMAIN last.val.p_y :
             last.val.p_y[key]
               = Cardinality({k \in 1..NumWindows : last.val.hash_Y[k] = key})
       /\ \A key \in DOMAIN last.val.p_xy :
             last.val.p_xy[key]
               = Cardinality({k \in 1..NumWindows :
                                <<last.val.hash_X[k], last.val.hash_Y[k]>> = key})
       /\ SumCells(last.val.p_x, DOMAIN last.val.p_x) = NumWindows
       /\ SumCells(last.val.p_y, DOMAIN last.val.p_y) = NumWindows
       /\ SumCells(last.val.p_xy, DOMAIN last.val.p_xy) = NumWindows

\* C30: the hash, the sum over the places of a pattern of entry * m^place,
\* sends distinct ordinal patterns of 0..m-1 to distinct integers for every
\* embedding dimension m: two windows share a hash value only if they have
\* the same ordinal pattern.
C30_HashSeparatesPatterns ==
    (last.op = "symbol_hash" /\ last.hash_p = last.hash_q) => last.p = last.q

C30_Witness ==
    /\ last.op = "symbol_hash"
    /\ last.m >= 3
    /\ last.p # last.q
    /\ {last.p[i] : i \in 1..last.m} = 0..(last.m - 1)
    /\ last.hash_p > last.hash_q
    /\ last.hash_q > 0

====
